---- MODULE Spec2Model ----
(***************************************************************************)
(* A model of the gluex-rs CCDB client: the variation cache and chain     *)
(* walk, the assignment resolver, the payload loader, the column decoder  *)
(* (Data::from_vault) and the directory / table path maps.                *)
(*                                                                         *)
(* Strings whose characters matter (vaults, paths, names of directories)   *)
(* are sequences of one-character strings; a variation name is only ever   *)
(* used as a key and is a plain string.  An instant (`created`, the query  *)
(* timestamp) is the integer number of seconds it denotes.                 *)
(***************************************************************************)
EXTENDS Integers, Sequences, FiniteSets, TLC

VARIABLES
    \* ---- database content (read-only: the file is opened read-only) ----
    variations,             \* rows of table `variations`: id -> [id, name, parent_id]
    assignments,            \* rows of assignments JOIN constantSets JOIN runRanges
    vaults,                 \* constantSets.vault by constant set id
    \* ---- CCDB handle ----
    variation_cache,        \* CCDB.variation_cache: name -> VariationMeta
    variation_chain_cache,  \* CCDB.variation_chain_cache: id -> chain
    \* ---- one TypeTableHandle::fetch call in progress ----
    pc,                     \* "idle" | "chain" | "resolve" | "done"
    ctx,                    \* the Context of the call
    chain,                  \* variation_chain: local `chain`
    current,                \* variation_chain: local `current`
    resolved,               \* result of resolve_assignments (run -> AssignmentMetaLite)
    result,                 \* what fetch returned
    \* ---- Data::from_vault on its own ----
    dv_vault, dv_columns, dv_nrows, dv_result,
    \* ---- CCDB::open and the path lookups ----
    dir_rows,               \* rows of table `directories` in the order the query yields them
    table_rows,             \* rows of table `typeTables`
    open_pc,                \* CCDB::open: "directories" | "tables" | "open"
    loaded,                 \* number of directory rows load_directories has consumed
    directory_meta,         \* CCDB.directory_meta: id -> DirectoryMeta
    directory_by_path,      \* CCDB.directory_by_path: path -> id
    table_meta,             \* CCDB.table_meta: id -> TypeTableMeta
    table_by_dir_name,      \* CCDB.table_by_dir_name: <<directory id, name>> -> id
    lookup,                 \* the last dir(path) / table(path) call and its result
    \* ---- one call of a function that touches no handle ----
    call_args,              \* the arguments of the call
    call_result,            \* what the call returned
    \* ---- load_vaults calls of a handle and its clones ----
    scratch_ids,            \* rows of the TEMP table ccdb_rs_query_constant_ids
    clone_calls,            \* per clone: the load_vaults call it is in, or its last result
    \* ---- one RCDB fetch / fetch_runs call, stage by stage ----
    query                   \* the locals of the call and its accesses to the driver

dbVars    == <<variations, assignments, vaults>>
cacheVars == <<variation_cache, variation_chain_cache>>
callVars  == <<pc, ctx, chain, current, resolved, result>>
dataVars  == <<dv_vault, dv_columns, dv_nrows, dv_result>>
dirVars   == <<dir_rows, table_rows, open_pc, loaded, directory_meta, directory_by_path,
               table_meta, table_by_dir_name, lookup>>
pureVars  == <<call_args, call_result>>
cloneVars == <<scratch_ids, clone_calls>>
queryVars == <<query>>
vars      == <<dbVars, cacheVars, callVars, dataVars, dirVars, pureVars, cloneVars, queryVars>>

----------------------------------------------------------------------------
(* Bounds of the model *)

MaxRun == 2
NVar == 2
NAsg == 2
MaxTime == 2
MaxCells == 4
MaxCols == 2
MaxRows == 2
NDir == 2
MaxSegments == 3

(* Program constants *)
DEFAULT_RUN_NUMBER == 0

----------------------------------------------------------------------------
(* Generic helpers *)

EmptyMap == <<>>

Put_Only(m, k, v) == [x \in {k} |-> v]

Put(m, k, v) == [x \in DOMAIN m \cup {k} |-> IF x = k THEN v ELSE m[x]]

Range(s) == {s[i] : i \in DOMAIN s}

Min(S) == CHOOSE x \in S : \A y \in S : x <= y

Max(S) == CHOOSE x \in S : \A y \in S : x >= y

\* all orders (sequences without repetition) of the elements of a finite set
Orders(S) == {s \in [1..Cardinality(S) -> S] : \A i, j \in DOMAIN s : i # j => s[i] # s[j]}

\* the ascending list of a finite set of integers
RECURSIVE Ascending(_)
Ascending(S) == IF S = {} THEN <<>> ELSE <<Min(S)>> \o Ascending(S \ {Min(S)})

----------------------------------------------------------------------------
(* Text: a string is a sequence of one-character strings *)

Digits == {"0", "1", "2", "3", "4", "5", "6", "7", "8", "9"}

DigitVal(c) ==
    CASE c = "0" -> 0 [] c = "1" -> 1 [] c = "2" -> 2 [] c = "3" -> 3 [] c = "4" -> 4
      [] c = "5" -> 5 [] c = "6" -> 6 [] c = "7" -> 7 [] c = "8" -> 8 [] c = "9" -> 9

RECURSIVE DecimalValue(_)
DecimalValue(s) ==
    IF s = <<>> THEN 0
    ELSE 10 * DecimalValue(SubSeq(s, 1, Len(s) - 1)) + DigitVal(s[Len(s)])

AllDigits(s) == Len(s) > 0 /\ \A i \in DOMAIN s : s[i] \in Digits

\* str::split(sep): the pieces between the separators; never empty, "" gives [""]
RECURSIVE Split(_, _)
Split(s, sep) ==
    IF \A i \in DOMAIN s : s[i] # sep THEN <<s>>
    ELSE LET i == Min({j \in DOMAIN s : s[j] = sep})
         IN  <<SubSeq(s, 1, i - 1)>> \o Split(SubSeq(s, i + 1, Len(s)), sep)

\* str::replace(from, to), leftmost non-overlapping matches
RECURSIVE Replace(_, _, _)
Replace(s, from, to) ==
    IF s = <<>> THEN <<>>
    ELSE IF Len(s) >= Len(from) /\ SubSeq(s, 1, Len(from)) = from
         THEN to \o Replace(SubSeq(s, Len(from) + 1, Len(s)), from, to)
         ELSE <<Head(s)>> \o Replace(Tail(s), from, to)

----------------------------------------------------------------------------
(* Column decoder: data.rs *)

ColumnType == {"int", "uint", "long", "ulong", "double", "string", "bool"}

\* str::parse::<iN / uN>: an optional sign ('-' only for a signed type), then digits.
\* The texts of this model have fewer than ten characters, so the value always fits
\* the type and the overflow error of the parse cannot arise.
\* The result is [ok |-> BOOLEAN, num |-> the value].
ParseInteger(s, is_signed) ==
    LET sign == Len(s) > 0 /\ s[1] \in {"+", "-"}
        neg  == sign /\ s[1] = "-"
        body == IF sign THEN Tail(s) ELSE s
        mag  == DecimalValue(body)
    IN  IF AllDigits(body) /\ (is_signed \/ ~neg)
        THEN [ok |-> TRUE, num |-> IF neg THEN 0 - mag ELSE mag]
        ELSE [ok |-> FALSE, num |-> 0]

ParseI32(s) == ParseInteger(s, TRUE)

ParseU32(s) == ParseInteger(s, FALSE)

ParseI64(s) == ParseInteger(s, TRUE)

ParseU64(s) == ParseInteger(s, FALSE)

\* str::parse::<f64> on the texts of this model (sign and digits, no fraction or exponent)
ParseF64(s) ==
    LET signed == Len(s) > 0 /\ s[1] \in {"+", "-"}
        body   == IF signed THEN Tail(s) ELSE s
        mag    == DecimalValue(body)
    IN  IF AllDigits(body)
        THEN [ok |-> TRUE, num |-> IF signed /\ s[1] = "-" THEN 0 - mag ELSE mag]
        ELSE [ok |-> FALSE, num |-> 0]

TrueText == <<"t", "r", "u", "e">>

FalseText == <<"f", "a", "l", "s", "e">>

DelimiterEscape == <<"&", "d", "e", "l", "i", "m", "e", "t", "e", "r">>

parse_bool(s) ==
    IF s = TrueText THEN TRUE
    ELSE IF s = FalseText THEN FALSE
    ELSE (IF ParseI32(s).ok THEN ParseI32(s).num ELSE 0) # 0

\* A Value: the variant `type`, its number (`num`, 0 / 1 for a bool) or its `text`
Value(t, n, s) == [type |-> t, num |-> n, text |-> s]

\* One arm of the match in from_vault: [ok, value] of a raw cell under a column type
DecodeCell(raw, t) ==
    CASE t = "int"    -> [ok |-> ParseI32(raw).ok, value |-> Value(t, ParseI32(raw).num, <<>>)]
      [] t = "uint"   -> [ok |-> ParseU32(raw).ok, value |-> Value(t, ParseU32(raw).num, <<>>)]
      [] t = "long"   -> [ok |-> ParseI64(raw).ok, value |-> Value(t, ParseI64(raw).num, <<>>)]
      [] t = "ulong"  -> [ok |-> ParseU64(raw).ok, value |-> Value(t, ParseU64(raw).num, <<>>)]
      [] t = "double" -> [ok |-> ParseF64(raw).ok, value |-> Value(t, ParseF64(raw).num, <<>>)]
      [] t = "string" -> [ok |-> TRUE,
                          value |-> Value(t, 0, Replace(raw, DelimiterEscape, <<"|">>))]
      [] t = "bool"   -> [ok |-> TRUE,
                          value |-> Value(t, IF parse_bool(raw) THEN 1 ELSE 0, <<>>)]

SortByOrder_AsGiven(cols) == cols

\* sort_unstable_by_key(|c| c.order) (the orders of a table's columns are distinct)
RECURSIVE SortByOrder(_)
SortByOrder(cols) ==
    IF cols = <<>> THEN <<>>
    ELSE LET i == CHOOSE i \in DOMAIN cols : \A j \in DOMAIN cols : cols[i].order <= cols[j].order
         IN  <<cols[i]>> \o SortByOrder(SubSeq(cols, 1, i - 1) \o SubSeq(cols, i + 1, Len(cols)))

ColumnCountMismatch(expected, found) ==
    [kind |-> "ColumnCountMismatch", expected |-> expected, found |-> found]

ParseError(column, row, t, text) ==
    [kind |-> "ParseError", column |-> column, row |-> row, column_type |-> t, text |-> text]

RECURSIVE FillColumns_NoSurplusTest(_, _, _, _, _)
FillColumns_NoSurplusTest(cells, column_types, expected_cells, idx, column_vecs) ==
    LET ncols == Len(column_types)
    IN  IF idx = expected_cells
        THEN [ok |-> TRUE, columns |-> column_vecs]
        ELSE IF idx >= Len(cells)
        THEN [ok |-> FALSE, err |-> ColumnCountMismatch(expected_cells, idx)]
        ELSE LET raw == cells[idx + 1]
                 row == idx \div ncols
                 col == idx % ncols
                 t   == column_types[col + 1]
                 d   == DecodeCell(raw, t)
             IN  IF ~d.ok
                 THEN [ok |-> FALSE, err |-> ParseError(col, row, t, raw)]
                 ELSE FillColumns_NoSurplusTest(cells, column_types, expected_cells, idx + 1,
                          [column_vecs EXCEPT ![col + 1] = Append(@, d.value)])

\* The loop `for idx in 0..expected_cells` of from_vault and the surplus test after it.
\* column_vecs[c] is the vector of the c-th column filled so far.
RECURSIVE FillColumns(_, _, _, _, _)
FillColumns(cells, column_types, expected_cells, idx, column_vecs) ==
    LET ncols == Len(column_types)
    IN  IF idx = expected_cells
        THEN IF Len(cells) > expected_cells
             THEN [ok |-> FALSE, err |-> ColumnCountMismatch(expected_cells, Len(cells))]
             ELSE [ok |-> TRUE, columns |-> column_vecs]
        ELSE IF idx >= Len(cells)
        THEN [ok |-> FALSE, err |-> ColumnCountMismatch(expected_cells, idx)]
        ELSE LET raw == cells[idx + 1]
                 row == idx \div ncols
                 col == idx % ncols
                 t   == column_types[col + 1]
                 d   == DecodeCell(raw, t)
             IN  IF ~d.ok
                 THEN [ok |-> FALSE, err |-> ParseError(col, row, t, raw)]
                 ELSE FillColumns(cells, column_types, expected_cells, idx + 1,
                          [column_vecs EXCEPT ![col + 1] = Append(@, d.value)])

\* Data::from_vault(vault, columns, nrows): [ok |-> TRUE, data] or [ok |-> FALSE, err]
from_vault(vault, columns, nrows) ==
    LET ncols          == Len(columns)
        expected_cells == nrows * ncols
        cols_sorted    == SortByOrder(columns)
        column_names   == [i \in 1..ncols |->
                              IF cols_sorted[i].name = "" THEN ToString(i - 1)
                              ELSE cols_sorted[i].name]
        column_types   == [i \in 1..ncols |-> cols_sorted[i].column_type]
        column_indices == [n \in Range(column_names) |->
                              Max({i \in 1..ncols : column_names[i] = n}) - 1]
        filled         == FillColumns(Split(vault, "|"), column_types, expected_cells, 0,
                                      [i \in 1..ncols |-> <<>>])
    IN  IF filled.ok
        THEN [ok |-> TRUE,
              data |-> [nrows |-> nrows, ncolumns |-> ncols,
                        column_names |-> column_names, column_indices |-> column_indices,
                        column_types |-> column_types, columns |-> filled.columns]]
        ELSE [ok |-> FALSE, err |-> filled.err]

None == [some |-> FALSE]

Some(v) == [some |-> TRUE, value |-> v]

\* Data::value(row, column)
DataValue(data, row, column) ==
    IF row >= data.nrows \/ column >= data.ncolumns THEN None
    ELSE Some(data.columns[column + 1][row + 1])

----------------------------------------------------------------------------
(* Context: context.rs *)

MAX_RUN_NUMBER == 2147483647

DEFAULT_VARIATION == "default"

\* Context::with_runs(iter): each run clamped to 0..MAX_RUN_NUMBER
with_runs(c, runs) ==
    [c EXCEPT !.runs = [i \in DOMAIN runs |->
                           IF runs[i] > MAX_RUN_NUMBER THEN MAX_RUN_NUMBER ELSE runs[i]]]

Included(n) == [bound |-> "Included", n |-> n]

Excluded(n) == [bound |-> "Excluded", n |-> n]

\* Context::with_run_range(range) for bounds whose +1 / -1 stays inside RunNumber
with_run_range(c, start_bound, end_bound) ==
    LET start == IF start_bound.bound = "Included" THEN start_bound.n ELSE start_bound.n + 1
        e     == IF end_bound.bound = "Included" THEN end_bound.n ELSE end_bound.n - 1
        end   == IF e > MAX_RUN_NUMBER THEN MAX_RUN_NUMBER ELSE e
    IN  [c EXCEPT !.runs = IF start > end THEN <<>> ELSE [i \in 1..(end - start + 1) |-> start + i - 1]]

with_variation(c, variation) == [c EXCEPT !.variation = variation]

with_timestamp(c, timestamp) == [c EXCEPT !.timestamp = timestamp]

\* Context::default() at the instant `now`
DefaultContext(now) ==
    [runs |-> <<DEFAULT_RUN_NUMBER>>, variation |-> DEFAULT_VARIATION, timestamp |-> now]

----------------------------------------------------------------------------
(* The database and the contexts of the model *)

RunNumbers == 0..MaxRun

VariationIds == 1..NVar

\* the name of the variation with id 1 is "default", as in every CCDB file
VariationName(id) == IF id = 1 THEN DEFAULT_VARIATION ELSE "v" \o ToString(id)

UnknownVariation == "nosuch"

VariationMeta(id, parent_id) == [id |-> id, name |-> VariationName(id), parent_id |-> parent_id]

\* parent ids: 0 (a root), another variation, or NVar + 1, an id with no row
RECURSIVE ReachesRoot(_, _, _)
ReachesRoot(parents, id, fuel) ==
    \/ id \notin DOMAIN parents
    \/ fuel > 0 /\ ReachesRoot(parents, parents[id], fuel - 1)

VariationTables ==
    {[id \in VariationIds |-> VariationMeta(id, parents[id])] :
        parents \in {p \in [VariationIds -> 0..(NVar + 1)] :
                        \A id \in VariationIds : ReachesRoot(p, id, NVar)}}

\* the cell texts and vaults of the table /test/demo/mytable (columns a: int, b: string)
TableColumns ==
    <<[name |-> "a", column_type |-> "int", order |-> 0],
      [name |-> "b", column_type |-> "string", order |-> 1]>>

TableRows == 1

GoodVault(id) == <<ToString(id), "|", "x">>

ShortVault(id) == <<ToString(id)>>

TextVault(id) == <<"x", "|", ToString(id)>>

\* one row of  assignments a JOIN constantSets cs JOIN runRanges rr  for this table;
\* the assignment with id i was created at instant i and owns constant set i
AssignmentRow(id, variation_id, run_min, run_max) ==
    [id |-> id, created |-> id, constant_set_id |-> id, variation_id |-> variation_id,
     run_min |-> run_min, run_max |-> run_max]

AssignmentTables ==
    {[id \in 1..NAsg |-> AssignmentRow(id, f[id][1], f[id][2], f[id][3])] :
        f \in [1..NAsg -> {t \in VariationIds \X RunNumbers \X RunNumbers : t[2] <= t[3]}]}

\* constantSets.vault: the vault of constant set 1 may be malformed
VaultTables ==
    {[id \in 1..NAsg |-> IF id = 1 THEN first ELSE GoodVault(id)] :
        first \in {GoodVault(1), ShortVault(1), TextVault(1)}}

Contexts ==
    {with_timestamp(with_variation(c, v), t) :
        c \in {with_runs(DefaultContext(0), Ascending(S)) : S \in SUBSET RunNumbers}
              \cup {with_run_range(DefaultContext(0), Included(a), Excluded(b)) :
                       a \in RunNumbers, b \in 1..(MaxRun + 1)},
        v \in {VariationName(id) : id \in VariationIds} \cup {UnknownVariation},
        t \in 1..MaxTime}

IdleContext == [runs |-> <<>>, variation |-> "", timestamp |-> 0]

NoVariation == VariationMeta(0, 0)

NoResult == [kind |-> "none"]

Ok(v) == [kind |-> "ok", value |-> v]

Err(e) == [kind |-> "err", err |-> e]

----------------------------------------------------------------------------
(* Assignment resolver and payload loader: database.rs *)

AssignmentMetaLite(row) ==
    [id |-> row.id, created |-> row.created, constant_set_id |-> row.constant_set_id]

QueryAssignments_MinOnly(order, var_id, timestamp, min_run, max_run) ==
    SelectSeq([i \in DOMAIN order |-> assignments[order[i]]],
              LAMBDA a : /\ a.created <= timestamp
                         /\ a.variation_id = var_id
                         /\ a.run_max >= min_run
                         /\ a.run_min <= min_run)

\* The rows the statement of resolve_assignments_for_variation selects, in the order
\* `order` (a list of row ids, the order in which the driver yields the rows)
QueryAssignments(order, var_id, timestamp, min_run, max_run) ==
    SelectSeq([i \in DOMAIN order |-> assignments[order[i]]],
              LAMBDA a : /\ a.created <= timestamp
                         /\ a.variation_id = var_id
                         /\ a.run_max >= min_run
                         /\ a.run_min <= max_run)

Better_Least(created, cur_best) == created < cur_best

\* The test that replaces the best assignment of a run by the row `created`
Better(created, cur_best) == created > cur_best

\* The inner loop `for (meta, rmin, rmax) in &valid_assignments` for one run:
\* best is None or Some(the best row so far)
RECURSIVE BestForRun(_, _, _)
BestForRun(run, valid_assignments, best) ==
    IF valid_assignments = <<>> THEN best
    ELSE LET a    == Head(valid_assignments)
             take == /\ run >= a.run_min
                     /\ run <= a.run_max
                     /\ (~best.some \/ Better(a.created, best.value.created))
         IN  BestForRun(run, Tail(valid_assignments), IF take THEN Some(a) ELSE best)

\* TypeTableHandle::resolve_assignments_for_variation: run -> AssignmentMetaLite
resolve_assignments_for_variation(runs, var_meta, timestamp, min_run, max_run, order) ==
    LET valid_assignments == QueryAssignments(order, var_meta.id, timestamp, min_run, max_run)
        covered == {run \in runs : BestForRun(run, valid_assignments, None).some}
    IN  [run \in covered |->
            AssignmentMetaLite(BestForRun(run, valid_assignments, None).value)]

RECURSIVE ResolveChain_KeepsRuns(_, _, _, _, _, _, _)
ResolveChain_KeepsRuns(var_chain, unresolved, final_assignments, timestamp, min_run, max_run, order) ==
    IF var_chain = <<>> \/ unresolved = {} THEN final_assignments
    ELSE LET partial == resolve_assignments_for_variation(
                            unresolved, Head(var_chain), timestamp, min_run, max_run, order)
         IN  ResolveChain_KeepsRuns(Tail(var_chain), unresolved,
                 [run \in DOMAIN final_assignments \cup DOMAIN partial |->
                     IF run \in DOMAIN partial THEN partial[run] ELSE final_assignments[run]],
                 timestamp, min_run, max_run, order)

\* The loop `for var_meta in var_chain` of resolve_assignments
RECURSIVE ResolveChain(_, _, _, _, _, _, _)
ResolveChain(var_chain, unresolved, final_assignments, timestamp, min_run, max_run, order) ==
    IF var_chain = <<>> \/ unresolved = {} THEN final_assignments
    ELSE LET partial == resolve_assignments_for_variation(
                            unresolved, Head(var_chain), timestamp, min_run, max_run, order)
         IN  ResolveChain(Tail(var_chain), unresolved \ DOMAIN partial,
                 [run \in DOMAIN final_assignments \cup DOMAIN partial |->
                     IF run \in DOMAIN partial THEN partial[run] ELSE final_assignments[run]],
                 timestamp, min_run, max_run, order)

\* TypeTableHandle::resolve_assignments once the chain of the variation is known
resolve_assignments(runs, var_chain, timestamp, order) ==
    IF runs = <<>> THEN EmptyMap
    ELSE ResolveChain(var_chain, Range(runs), EmptyMap, timestamp,
                      Min(Range(runs)), Max(Range(runs)), order)

DecodeAll_SkipFailed(decoded) ==
    Ok([run \in {r \in DOMAIN decoded : decoded[r].ok} |-> decoded[run].data])

\* The first failing decode in ascending run order, as collect::<CCDBResult<_>>() stops
DecodeAll(decoded) ==
    IF \E run \in DOMAIN decoded : ~decoded[run].ok
    THEN Err(decoded[Min({run \in DOMAIN decoded : ~decoded[run].ok})].err)
    ELSE Ok([run \in DOMAIN decoded |-> decoded[run].data])

\* TypeTableHandle::load_vaults(assignments): the scratch table is emptied, filled with
\* the distinct constant set ids and joined with constantSets
load_vaults(assigned) ==
    IF DOMAIN assigned = {} THEN Ok(EmptyMap)
    ELSE LET constant_set_ids == {assigned[run].constant_set_id : run \in DOMAIN assigned}
             cs_map  == [id \in constant_set_ids \cap DOMAIN vaults |-> vaults[id]]
             columns == SortByOrder(TableColumns)
             n_rows  == TableRows
             found   == {run \in DOMAIN assigned :
                            assigned[run].constant_set_id \in DOMAIN cs_map}
         IN  DecodeAll([run \in found |->
                 from_vault(cs_map[assigned[run].constant_set_id], columns, n_rows)])

\* The run list TypeTableHandle::fetch resolves
FetchRuns(c) == IF c.runs = <<>> THEN <<DEFAULT_RUN_NUMBER>> ELSE c.runs

\* CCDB::variation(name): the row of the cache, else the row the query finds
VariationRow(name) ==
    IF name \in DOMAIN variation_cache THEN Some(variation_cache[name])
    ELSE IF \E id \in DOMAIN variations : variations[id].name = name
         THEN Some(variations[CHOOSE id \in DOMAIN variations : variations[id].name = name])
         ELSE None

----------------------------------------------------------------------------
(* One fetch call: TypeTableHandle::fetch(ctx) *)

\* fetch up to the start of the walk in variation_chain
FetchStart(c) ==
    /\ pc = "idle"
    /\ ctx' = c
    /\ LET v == VariationRow(c.variation)
       IN  IF ~v.some
           THEN /\ result' = Err([kind |-> "VariationNotFoundError", name |-> c.variation])
                /\ pc' = "done"
                /\ UNCHANGED <<variation_cache, chain, current>>
           ELSE /\ variation_cache' = Put(variation_cache, c.variation, v.value)
                /\ result' = NoResult
                /\ IF v.value.id \in DOMAIN variation_chain_cache
                   THEN /\ chain' = variation_chain_cache[v.value.id]
                        /\ pc' = "resolve"
                        /\ UNCHANGED current
                   ELSE /\ chain' = <<v.value>>
                        /\ current' = v.value
                        /\ pc' = "chain"
    /\ UNCHANGED <<dbVars, cloneVars, queryVars, variation_chain_cache, resolved, dataVars, dirVars, pureVars>>

ChainStep_SameCurrent ==
    /\ pc = "chain"
    /\ current.parent_id > 0
    /\ current.parent_id \in DOMAIN variations
    /\ chain' = Append(chain, variations[current.parent_id])
    /\ UNCHANGED <<dbVars, cloneVars, queryVars, cacheVars, pc, ctx, current, resolved, result, dataVars, dirVars,
                   pureVars>>

\* one iteration of `while current.parent_id > 0` that finds the parent row
ChainStep ==
    /\ pc = "chain"
    /\ current.parent_id > 0
    /\ current.parent_id \in DOMAIN variations
    /\ current' = variations[current.parent_id]
    /\ chain' = Append(chain, variations[current.parent_id])
    /\ UNCHANGED <<dbVars, cloneVars, queryVars, cacheVars, pc, ctx, resolved, result, dataVars, dirVars, pureVars>>

ChainEnd_StopsEarly ==
    /\ pc = "chain"
    /\ \/ current.parent_id <= 1
       \/ current.parent_id > 0 /\ current.parent_id \notin DOMAIN variations
    /\ variation_chain_cache' = Put(variation_chain_cache, chain[1].id, chain)
    /\ pc' = "resolve"
    /\ UNCHANGED <<dbVars, cloneVars, queryVars, variation_cache, ctx, chain, current, resolved, result,
                   dataVars, dirVars, pureVars>>

\* the loop ends (at a root, or at `break` when the parent has no row): cache the chain
ChainEnd ==
    /\ pc = "chain"
    /\ \/ current.parent_id <= 0
       \/ current.parent_id > 0 /\ current.parent_id \notin DOMAIN variations
    /\ variation_chain_cache' = Put(variation_chain_cache, chain[1].id, chain)
    /\ pc' = "resolve"
    /\ UNCHANGED <<dbVars, cloneVars, queryVars, variation_cache, ctx, chain, current, resolved, result,
                   dataVars, dirVars, pureVars>>

\* the rest of resolve_assignments, then load_vaults; the driver yields the rows of
\* the assignment query in some order
Resolve ==
    /\ pc = "resolve"
    /\ \E order \in Orders(DOMAIN assignments) :
          resolved' = resolve_assignments(FetchRuns(ctx), chain, ctx.timestamp, order)
    /\ result' = IF DOMAIN resolved' = {} THEN Ok(EmptyMap) ELSE load_vaults(resolved')
    /\ pc' = "done"
    /\ UNCHANGED <<dbVars, cloneVars, queryVars, cacheVars, ctx, chain, current, dataVars, dirVars, pureVars>>

\* the caller takes the result; the handle is ready for the next call
Return ==
    /\ pc = "done"
    /\ pc' = "idle"
    /\ ctx' = IdleContext
    /\ chain' = <<>>
    /\ current' = NoVariation
    /\ resolved' = EmptyMap
    /\ result' = NoResult
    /\ UNCHANGED <<dbVars, cloneVars, queryVars, cacheVars, dataVars, dirVars, pureVars>>

DataIdle ==
    /\ dv_vault = <<>>
    /\ dv_columns = <<>>
    /\ dv_nrows = 0
    /\ dv_result = NoResult

DirIdle ==
    /\ dir_rows = <<>>
    /\ table_rows = <<>>
    /\ open_pc = "open"
    /\ loaded = 0
    /\ directory_meta = EmptyMap
    /\ directory_by_path = EmptyMap
    /\ table_meta = EmptyMap
    /\ table_by_dir_name = EmptyMap
    /\ lookup = NoResult

PureIdle ==
    /\ call_args = <<>>
    /\ call_result = NoResult

\* no load_vaults call on any clone, an empty scratch table
CloneIdle ==
    /\ scratch_ids = {}
    /\ clone_calls = <<>>

\* no staged RCDB call
QueryIdle == query = <<>>

CallIdle ==
    /\ CloneIdle
    /\ QueryIdle
    /\ pc = "idle"
    /\ ctx = IdleContext
    /\ chain = <<>>
    /\ current = NoVariation
    /\ resolved = EmptyMap
    /\ result = NoResult

\* CCDB::open has run: empty lazy caches, any database content of the model
Init ==
    /\ variations \in VariationTables
    /\ assignments \in AssignmentTables
    /\ vaults \in VaultTables
    /\ variation_cache = EmptyMap
    /\ variation_chain_cache = EmptyMap
    /\ CallIdle
    /\ DataIdle
    /\ DirIdle
    /\ PureIdle

Next ==
    \/ \E c \in Contexts : FetchStart(c)
    \/ ChainStep
    \/ ChainEnd
    \/ Resolve
    \/ Return

Spec == Init /\ [][Next]_vars

----------------------------------------------------------------------------
(* Properties of the assignment resolver and of fetch *)

\* the variation the call names, when the table has it
Known(name) == \E id \in DOMAIN variations : variations[id].name = name

StartId(name) == CHOOSE id \in DOMAIN variations : variations[id].name = name

\* the ids of [v, parent(v), ...] read off the variations table
RECURSIVE Lineage(_, _)
Lineage(id, fuel) ==
    IF id \notin DOMAIN variations \/ fuel = 0 THEN <<>>
    ELSE <<id>> \o Lineage(variations[id].parent_id, fuel - 1)

\* assignment a is eligible for run r at the timestamp of the call
Covers(a, r) == a.run_min <= r /\ r <= a.run_max /\ a.created <= ctx.timestamp

EligibleIn(var_id, r) ==
    {id \in DOMAIN assignments : assignments[id].variation_id = var_id /\ Covers(assignments[id], r)}

Resolved == pc = "done" /\ Known(ctx.variation)

\* C1: the assignment returned for a run belongs to the first variation of the
\* inheritance chain, in chain order, that has an eligible assignment for the run;
\* an ancestor's assignment is never returned where a descendant has one
C1_ChildOverridesParent ==
    Resolved =>
        LET line == Lineage(StartId(ctx.variation), NVar)
        IN  \A r \in DOMAIN resolved :
                \E k \in DOMAIN line :
                    /\ assignments[resolved[r].id].variation_id = line[k]
                    /\ \A j \in 1..(k - 1) : EligibleIn(line[j], r) = {}

\* C1 witness: a child and its parent both have an eligible assignment for a run, the
\* parent's is the newer one, the child's is returned, and another run of the same
\* call is served by the parent
C1_Witness ==
    /\ Resolved
    /\ Len(chain) >= 2
    /\ \E r, q \in DOMAIN resolved :
          /\ assignments[resolved[r].id].variation_id = chain[1].id
          /\ \E p \in EligibleIn(chain[2].id, r) : assignments[p].created > resolved[r].created
          /\ assignments[resolved[q].id].variation_id = chain[2].id

\* C2: among the eligible assignments of the variation that serves a run, the one
\* returned has the greatest created time, whatever the order of the rows
C2_GreatestCreatedWins ==
    Resolved =>
        \A r \in DOMAIN resolved :
            \A id \in EligibleIn(assignments[resolved[r].id].variation_id, r) :
                assignments[id].created <= resolved[r].created

\* C2 witness: two assignments of one variation are eligible for a returned run
C2_Witness ==
    /\ Resolved
    /\ \E r \in DOMAIN resolved :
          Cardinality(EligibleIn(assignments[resolved[r].id].variation_id, r)) >= 2

\* C3: a requested run is a key of the mapping exactly when some assignment of a
\* variation of the chain is eligible for it, the assignment recorded is such an
\* assignment, and a run without one is left out without an error
C3_KeysAreEligibleRuns ==
    Resolved =>
        LET line == Lineage(StartId(ctx.variation), NVar)
            runs == Range(FetchRuns(ctx))
        IN  /\ DOMAIN resolved =
                  {r \in runs : \E k \in DOMAIN line : EligibleIn(line[k], r) # {}}
            /\ \A r \in DOMAIN resolved :
                  /\ resolved[r].id \in DOMAIN assignments
                  /\ resolved[r] = AssignmentMetaLite(assignments[resolved[r].id])
                  /\ Covers(assignments[resolved[r].id], r)
                  /\ \E k \in DOMAIN line : assignments[resolved[r].id].variation_id = line[k]
            /\ (DOMAIN resolved = {} => result = Ok(EmptyMap))

\* C3 witness: of two requested runs one is returned and the other, for which the only
\* covering assignment is too new, is left out
C3_Witness ==
    /\ Resolved
    /\ \E r, q \in Range(FetchRuns(ctx)) :
          /\ r \in DOMAIN resolved
          /\ q \notin DOMAIN resolved
          /\ \E id \in DOMAIN assignments :
                /\ assignments[id].run_min <= q /\ q <= assignments[id].run_max
                /\ assignments[id].created > ctx.timestamp

\* C4: every key of the mapping fetch returns is a run of ctx.runs, so an empty run
\* list gives an empty mapping
C4_KeysAreContextRuns ==
    (pc = "done" /\ result.kind = "ok") => DOMAIN result.value \subseteq Range(ctx.runs)

\* the chain c starts at the variation id and follows the parent ids
FollowsParents(c, id) ==
    /\ Len(c) >= 1
    /\ c[1] = variations[id]
    /\ \A i \in 1..(Len(c) - 1) :
          /\ c[i].parent_id \in DOMAIN variations
          /\ c[i + 1] = variations[c[i].parent_id]

\* every chain variation_chain has returned: the cached ones and the one of the call
ReturnedChains ==
    {<<id, variation_chain_cache[id]>> : id \in DOMAIN variation_chain_cache}
        \cup (IF pc = "resolve" THEN {<<chain[1].id, chain>>} ELSE {})

\* C5 as stated: the chain starts at v, follows the parent ids and ends at a root
C5_ChainEndsAtRoot ==
    \A e \in ReturnedChains :
        FollowsParents(e[2], e[1]) /\ e[2][Len(e[2])].parent_id = 0

\* C5: the chain starts at v, each next element is the row whose id is the parent_id
\* of the element before it, and the last element is a root (parent_id = 0) or a
\* variation whose parent_id is the id of no row of the variations table
C5_ChainEndsAtRootOrOrphan ==
    \A e \in ReturnedChains :
        /\ FollowsParents(e[2], e[1])
        /\ \/ e[2][Len(e[2])].parent_id = 0
           \/ e[2][Len(e[2])].parent_id \notin DOMAIN variations

\* C5 witness: a walk has returned a chain of two variations that ends at a root
C5_Witness ==
    \E e \in ReturnedChains :
        Len(e[2]) >= 2 /\ e[2][Len(e[2])].parent_id = 0 /\ pc = "resolve"

\* the decode of the vault of the assignment resolved for a run
DecodeOf(r) == from_vault(vaults[resolved[r].constant_set_id], TableColumns, TableRows)

\* C6: fetch returns a mapping only when the vault of every resolved run decodes, and
\* then the mapping has every resolved run; when one vault fails, fetch returns that
\* ColumnCountMismatch or ParseError and no mapping
C6_AllOrNothing ==
    (Resolved /\ DOMAIN resolved # {}) =>
        IF \A r \in DOMAIN resolved : DecodeOf(r).ok
        THEN /\ result.kind = "ok"
             /\ DOMAIN result.value = DOMAIN resolved
             /\ \A r \in DOMAIN resolved : result.value[r] = DecodeOf(r).data
        ELSE /\ result.kind = "err"
             /\ result.err.kind \in {"ColumnCountMismatch", "ParseError"}
             /\ \E r \in DOMAIN resolved : ~DecodeOf(r).ok /\ result.err = DecodeOf(r).err

\* C6 witness: the call failed although the vault of one resolved run is well-formed
C6_Witness ==
    /\ Resolved
    /\ result.kind = "err"
    /\ \E r, q \in DOMAIN resolved : DecodeOf(r).ok /\ ~DecodeOf(q).ok

----------------------------------------------------------------------------
(* Data::from_vault on its own: any vault, schema and row count of the model *)

CellTexts == {<<>>, <<"1">>, <<"x">>}

SchemaTypes == {"int", "double", "string", "bool"}

\* [T]::join(sep)
RECURSIVE Join(_, _)
Join(parts, sep) ==
    IF Len(parts) = 0 THEN <<>>
    ELSE IF Len(parts) = 1 THEN parts[1]
    ELSE parts[1] \o <<sep>> \o Join(Tail(parts), sep)

\* a vault is the '|'-join of its cells: every vault of up to MaxCells cells of CellTexts
Vaults == UNION {{Join(cells, "|") : cells \in [1..n -> CellTexts]} : n \in 1..MaxCells}

\* the column of `order` k is named "a" when k = 0 and has no name otherwise
SchemaColumn(k, t) == [name |-> IF k = 0 THEN "a" ELSE "", column_type |-> t, order |-> k]

\* the columns of a type table, handed over in ascending or in descending `order`
Schemas ==
    UNION {{[i \in 1..m |-> SchemaColumn(i - 1, types[i])] : types \in [1..m -> SchemaTypes]}
           \cup {[i \in 1..m |-> SchemaColumn(m - i, types[i])] : types \in [1..m -> SchemaTypes]}
           : m \in 0..MaxCols}

PipelineIdle ==
    /\ variations = EmptyMap
    /\ assignments = EmptyMap
    /\ vaults = EmptyMap
    /\ variation_cache = EmptyMap
    /\ variation_chain_cache = EmptyMap
    /\ CallIdle

DataInit ==
    /\ dv_vault \in Vaults
    /\ dv_columns \in Schemas
    /\ dv_nrows \in 0..MaxRows
    /\ dv_result = NoResult
    /\ PipelineIdle
    /\ DirIdle
    /\ PureIdle

\* Data::from_vault(vault, columns, nrows)
FromVault ==
    /\ dv_result = NoResult
    /\ dv_result' = LET r == from_vault(dv_vault, dv_columns, dv_nrows)
                    IN  IF r.ok THEN Ok(r.data) ELSE Err(r.err)
    /\ UNCHANGED <<dv_vault, dv_columns, dv_nrows, dbVars, cloneVars, queryVars, cacheVars, callVars, dirVars, pureVars>>

DataNext == FromVault

DataSpec == DataInit /\ [][DataNext]_vars

----------------------------------------------------------------------------
(* Properties of the column decoder *)

\* the number of '|'-separated cells of the vault
CellCount == Cardinality({i \in DOMAIN dv_vault : dv_vault[i] = "|"}) + 1

\* the k-th cell (k = 0, 1, ...): the text between the k-th and the (k+1)-th delimiter
NthCell(k) ==
    LET bars  == {i \in DOMAIN dv_vault : dv_vault[i] = "|"}
        from  == IF k = 0 THEN 0 ELSE CHOOSE i \in bars : Cardinality({j \in bars : j < i}) = k - 1
        upto  == IF k = CellCount - 1 THEN Len(dv_vault) + 1
                 ELSE CHOOSE i \in bars : Cardinality({j \in bars : j < i}) = k
    IN  SubSeq(dv_vault, from + 1, upto - 1)

\* the type of the c-th column (c = 0, 1, ...) in ascending `order`
TypeByRank(c) ==
    LET i == CHOOSE i \in DOMAIN dv_columns :
                 Cardinality({j \in DOMAIN dv_columns : dv_columns[j].order < dv_columns[i].order}) = c
    IN  dv_columns[i].column_type

ExpectedCells == dv_nrows * Len(dv_columns)

\* the cells, among the first ExpectedCells, that do not decode under their column
Undecodable ==
    {k \in 0..(ExpectedCells - 1) :
        k < CellCount /\ ~DecodeCell(NthCell(k), TypeByRank(k % Len(dv_columns))).ok}

Decoded == dv_result # NoResult

\* C7 as stated: a vault whose cell count differs from N*M fails with
\* ColumnCountMismatch{expected: N*M, found: the cell count}, a vault of N*M cells never
C7_WrongCountIsMismatch ==
    Decoded =>
        IF CellCount # ExpectedCells
        THEN dv_result = Err(ColumnCountMismatch(ExpectedCells, CellCount))
        ELSE ~(dv_result.kind = "err" /\ dv_result.err.kind = "ColumnCountMismatch")

\* C7: a vault whose cell count differs from N*M fails with ColumnCountMismatch{expected:
\* N*M, found: the cell count} when every cell among its first N*M decodes under its
\* column type, and with the ParseError of the first cell that does not otherwise; a
\* vault of exactly N*M cells never fails with ColumnCountMismatch
C7_WrongCountIsMismatchUnlessParseError ==
    Decoded =>
        IF Undecodable # {}
        THEN LET k == Min(Undecodable)
             IN  dv_result = Err(ParseError(k % Len(dv_columns), k \div Len(dv_columns),
                                            TypeByRank(k % Len(dv_columns)), NthCell(k)))
        ELSE IF CellCount # ExpectedCells
        THEN dv_result = Err(ColumnCountMismatch(ExpectedCells, CellCount))
        ELSE dv_result.kind = "ok"

\* C7 witness: the vault "1|1|1" for 2 columns and 2 rows gives expected 4, found 3
C7_Witness ==
    /\ dv_vault = <<"1", "|", "1", "|", "1">>
    /\ Len(dv_columns) = 2
    /\ dv_nrows = 2
    /\ dv_result = Err(ColumnCountMismatch(4, 3))

\* C7 witness of a surplus: a trailing delimiter adds a cell
C7_WitnessSurplus ==
    /\ dv_vault = <<"1", "|", "1", "|">>
    /\ ExpectedCells = 2
    /\ dv_result = Err(ColumnCountMismatch(2, 3))

\* C8: a vault of exactly N*M decodable cells decodes, to N rows and M columns, and
\* value(r, c) is the decoding of cell r*M + c under the type of the c-th column in
\* ascending order, which is column_types()[c], whatever order the columns came in
C8_RowMajorLayout ==
    (Decoded /\ CellCount = ExpectedCells /\ Undecodable = {}) =>
        /\ dv_result.kind = "ok"
        /\ dv_result.value.nrows = dv_nrows
        /\ dv_result.value.ncolumns = Len(dv_columns)
        /\ \A r \in 0..(dv_nrows - 1) : \A c \in 0..(Len(dv_columns) - 1) :
              /\ dv_result.value.column_types[c + 1] = TypeByRank(c)
              /\ DataValue(dv_result.value, r, c) =
                     Some(DecodeCell(NthCell(r * Len(dv_columns) + c), TypeByRank(c)).value)
              /\ DataValue(dv_result.value, r, c).value.type = dv_result.value.column_types[c + 1]

\* C8 witness: 2 rows of an (int, string) table whose columns came in descending order
C8_Witness ==
    /\ dv_result.kind = "ok"
    /\ dv_nrows = 2
    /\ Len(dv_columns) = 2
    /\ dv_columns[1].order > dv_columns[2].order
    /\ TypeByRank(0) = "int" /\ TypeByRank(1) = "string"
    /\ DataValue(dv_result.value, 1, 0) = Some(Value("int", 1, <<>>))
    /\ DataValue(dv_result.value, 1, 1) = Some(Value("string", 0, <<"x">>))

----------------------------------------------------------------------------
(* Paths and the directory / table maps: database.rs *)

\* The closure push_parts of normalize_path, applied to the pieces of value.split('/')
RECURSIVE PushParts(_, _)
PushParts(segments, parts) ==
    IF parts = <<>> THEN segments
    ELSE LET part == Head(parts)
         IN  IF part = <<>> \/ part = <<".">>
             THEN PushParts(segments, Tail(parts))
             ELSE IF part = <<".", ".">>
             THEN PushParts(IF segments = <<>> THEN <<>>
                            ELSE SubSeq(segments, 1, Len(segments) - 1), Tail(parts))
             ELSE PushParts(Append(segments, part), Tail(parts))

normalize_path_KeepsBase(base, path) ==
    LET segments == PushParts(PushParts(<<>>, Split(base, "/")), Split(path, "/"))
    IN  IF segments = <<>> THEN <<"/">> ELSE <<"/">> \o Join(segments, "/")

normalize_path(base, path) ==
    LET segments == IF Len(path) > 0 /\ path[1] = "/"
                    THEN PushParts(<<>>, Split(path, "/"))
                    ELSE PushParts(PushParts(<<>>, Split(base, "/")), Split(path, "/"))
    IN  IF segments = <<>> THEN <<"/">> ELSE <<"/">> \o Join(segments, "/")

\* str::rsplit_once('/') of a text that holds a '/': <<before, after>> the last one
RSplitOnce(s) ==
    LET i == Max({j \in DOMAIN s : s[j] = "/"})
    IN  <<SubSeq(s, 1, i - 1), SubSeq(s, i + 1, Len(s))>>

DirectoryMeta(id, name, parent_id) == [id |-> id, name |-> name, parent_id |-> parent_id]

TypeTableMeta(id, directory_id, name) == [id |-> id, directory_id |-> directory_id, name |-> name]

\* CCDB::root(): the handle of the virtual directory 0
RootMeta == DirectoryMeta(0, <<>>, 0)

\* CCDB::build_dir_path_from_meta(dir), over the rows loaded so far (metas)
RECURSIVE build_dir_path_from_meta(_, _)
build_dir_path_from_meta(metas, dir) ==
    IF dir.parent_id = 0 THEN <<"/">> \o dir.name
    ELSE IF dir.parent_id \in DOMAIN metas
    THEN LET p == build_dir_path_from_meta(metas, metas[dir.parent_id])
         IN  (IF p[Len(p)] # "/" THEN p \o <<"/">> ELSE p) \o dir.name
    ELSE <<"/">> \o dir.name

\* DirectoryHandle::full_path()
RECURSIVE FullPathNames(_)
FullPathNames(cur) ==
    IF cur.parent_id = 0 THEN <<cur.name>>
    ELSE IF cur.parent_id \in DOMAIN directory_meta
    THEN FullPathNames(directory_meta[cur.parent_id]) \o <<cur.name>>
    ELSE <<cur.name>>

full_path(meta) == IF meta.id = 0 THEN <<"/">> ELSE <<"/">> \o Join(FullPathNames(meta), "/")

DirectoryNotFoundError(path) == [kind |-> "DirectoryNotFoundError", path |-> path]

TableNotFoundError(path) == [kind |-> "TableNotFoundError", path |-> path]

InvalidPathError(path) == [kind |-> "InvalidPathError", path |-> path]

\* CCDB::dir(path)
CCDB_dir(path) ==
    IF path = <<"/">> \/ path = <<>> THEN Ok(RootMeta)
    ELSE LET norm == normalize_path(<<"/">>, path)
         IN  IF norm \notin DOMAIN directory_by_path THEN Err(DirectoryNotFoundError(norm))
             ELSE IF directory_by_path[norm] \notin DOMAIN directory_meta
             THEN Err(DirectoryNotFoundError(norm))
             ELSE Ok(directory_meta[directory_by_path[norm]])

\* DirectoryHandle::table(name)
DirectoryHandle_table(meta, name) ==
    IF <<meta.id, name>> \notin DOMAIN table_by_dir_name
    THEN Err(TableNotFoundError(full_path(meta) \o <<"/">> \o name))
    ELSE IF table_by_dir_name[<<meta.id, name>>] \notin DOMAIN table_meta
    THEN Err(TableNotFoundError(full_path(meta) \o <<"/">> \o name))
    ELSE Ok(table_meta[table_by_dir_name[<<meta.id, name>>]])

\* CCDB::table(path)
CCDB_table(path) ==
    LET norm  == normalize_path(<<"/">>, path)
        split == RSplitOnce(norm)
    IN  IF split[2] = <<>> THEN Err(InvalidPathError(norm))
        ELSE LET dir == CCDB_dir(split[1])
             IN  IF dir.kind = "err" THEN dir ELSE DirectoryHandle_table(dir.value, split[2])

----------------------------------------------------------------------------
(* CCDB::open and the lookups on the open handle *)

DirIds == 1..NDir

\* the names of the directories of the model, and of its one table
DirName(id) == <<<<"a">>, <<"b">>, <<"c">>, <<"d">>>>[id]

TableName == <<"t">>

\* parent ids: 0 (under the root), another directory, or NDir + 1, an id with no row;
\* the directories form no cycle
DirectoryTables ==
    {[id \in DirIds |-> DirectoryMeta(id, DirName(id), parents[id])] :
        parents \in {p \in [DirIds -> 0..(NDir + 1)] : \A id \in DirIds : ReachesRoot(p, id, NDir)}}

\* the pieces a user path is made of
Segments == {<<>>, <<".">>, <<".", ".">>, TableName} \cup {DirName(id) : id \in DirIds}

UserPaths == UNION {{Join(parts, "/") : parts \in [1..n -> Segments]} : n \in 1..MaxSegments}

\* the handle before load_directories: the rows of `directories` come in any order
OpenInit ==
    /\ \E rows \in DirectoryTables : \E order \in Orders(DirIds) :
          dir_rows = [i \in DirIds |-> rows[order[i]]]
    /\ \E d \in 0..NDir : table_rows = <<TypeTableMeta(1, d, TableName)>>
    /\ open_pc = "directories"
    /\ loaded = 0
    /\ directory_meta = EmptyMap
    /\ directory_by_path = EmptyMap
    /\ table_meta = EmptyMap
    /\ table_by_dir_name = EmptyMap
    /\ lookup = NoResult
    /\ PipelineIdle
    /\ DataIdle
    /\ PureIdle

\* one iteration of `for dir in rows` of load_directories
LoadDirectory ==
    /\ open_pc = "directories"
    /\ loaded < Len(dir_rows)
    /\ LET dir  == dir_rows[loaded + 1]
           path == build_dir_path_from_meta(directory_meta, dir)
       IN  /\ directory_by_path' = Put(directory_by_path, path, dir.id)
           /\ directory_meta' = Put(directory_meta, dir.id, dir)
    /\ loaded' = loaded + 1
    /\ UNCHANGED <<dir_rows, table_rows, open_pc, table_meta, table_by_dir_name, lookup,
                   dbVars, cloneVars, queryVars, cacheVars, callVars, dataVars, pureVars>>

\* load_directories returns
LoadDirectoriesEnd ==
    /\ open_pc = "directories"
    /\ loaded = Len(dir_rows)
    /\ open_pc' = "tables"
    /\ UNCHANGED <<dir_rows, table_rows, loaded, directory_meta, directory_by_path,
                   table_meta, table_by_dir_name, lookup, dbVars, cloneVars, queryVars, cacheVars, callVars, dataVars, pureVars>>

\* load_tables: both maps get every row of typeTables
LoadTables ==
    /\ open_pc = "tables"
    /\ table_meta' = [id \in {table_rows[i].id : i \in DOMAIN table_rows} |->
                         table_rows[CHOOSE i \in DOMAIN table_rows : table_rows[i].id = id]]
    /\ table_by_dir_name' =
           [key \in {<<table_rows[i].directory_id, table_rows[i].name>> : i \in DOMAIN table_rows} |->
               table_rows[Max({i \in DOMAIN table_rows :
                                  <<table_rows[i].directory_id, table_rows[i].name>> = key})].id]
    /\ open_pc' = "open"
    /\ UNCHANGED <<dir_rows, table_rows, loaded, directory_meta, directory_by_path, lookup,
                   dbVars, cloneVars, queryVars, cacheVars, callVars, dataVars, pureVars>>

\* a call of CCDB::dir(path)
LookupDir(path) ==
    /\ open_pc = "open"
    /\ lookup = NoResult
    /\ lookup' = [op |-> "dir", path |-> path, result |-> CCDB_dir(path)]
    /\ UNCHANGED <<dir_rows, table_rows, open_pc, loaded, directory_meta, directory_by_path,
                   table_meta, table_by_dir_name, dbVars, cloneVars, queryVars, cacheVars, callVars, dataVars, pureVars>>

\* a call of CCDB::table(path)
LookupTable(path) ==
    /\ open_pc = "open"
    /\ lookup = NoResult
    /\ lookup' = [op |-> "table", path |-> path, result |-> CCDB_table(path)]
    /\ UNCHANGED <<dir_rows, table_rows, open_pc, loaded, directory_meta, directory_by_path,
                   table_meta, table_by_dir_name, dbVars, cloneVars, queryVars, cacheVars, callVars, dataVars, pureVars>>

\* the caller takes the result of the lookup
LookupReturn ==
    /\ open_pc = "open"
    /\ lookup # NoResult
    /\ lookup' = NoResult
    /\ UNCHANGED <<dir_rows, table_rows, open_pc, loaded, directory_meta, directory_by_path,
                   table_meta, table_by_dir_name, dbVars, cloneVars, queryVars, cacheVars, callVars, dataVars, pureVars>>

OpenNext ==
    \/ LoadDirectory
    \/ LoadDirectoriesEnd
    \/ LoadTables
    \/ \E path \in UserPaths : LookupDir(path)
    \/ \E path \in UserPaths : LookupTable(path)
    \/ LookupReturn

OpenSpec == OpenInit /\ [][OpenNext]_vars

----------------------------------------------------------------------------
(* Properties of the path maps and of the lookups *)

Opened == open_pc = "open"

\* the row of the directories table with the given id
DirectoryRow(id) == dir_rows[CHOOSE i \in DOMAIN dir_rows : dir_rows[i].id = id]

HasDirectoryRow(id) == \E i \in DOMAIN dir_rows : dir_rows[i].id = id

\* the parent_id chain of the row reaches the root within `fuel` steps
RECURSIVE ChainReachesRoot(_, _)
ChainReachesRoot(d, fuel) ==
    \/ d.parent_id = 0
    \/ fuel > 0 /\ HasDirectoryRow(d.parent_id)
                /\ ChainReachesRoot(DirectoryRow(d.parent_id), fuel - 1)

\* the names of the ancestors of a row whose chain reaches the root, from the root down
RECURSIVE AncestorNames(_)
AncestorNames(d) ==
    IF d.parent_id = 0 THEN <<d.name>>
    ELSE AncestorNames(DirectoryRow(d.parent_id)) \o <<d.name>>

DirectoryPath(d) == <<"/">> \o Join(AncestorNames(d), "/")

\* C9: after open, the path map sends the '/'-joined ancestor names of every directory
\* row whose parent chain reaches the root to the id of the row, and dir of that path
\* returns the row, whatever the order in which the rows were read
C9_PathOfEveryDirectory ==
    Opened =>
        \A i \in DOMAIN dir_rows :
            ChainReachesRoot(dir_rows[i], NDir) =>
                /\ DirectoryPath(dir_rows[i]) \in DOMAIN directory_by_path
                /\ directory_by_path[DirectoryPath(dir_rows[i])] = dir_rows[i].id
                /\ CCDB_dir(DirectoryPath(dir_rows[i])) = Ok(dir_rows[i])

\* the rows were read parents first
ParentsFirst ==
    \A i, j \in DOMAIN dir_rows : dir_rows[i].parent_id = dir_rows[j].id => j < i

\* the path map is right when every parent row is read before its children
PathOfEveryDirectoryParentsFirst == ParentsFirst => C9_PathOfEveryDirectory

\* the directory a normalized path names: the root, or the directory the map has
IsDirectory(norm) == norm = <<"/">> \/ norm \in DOMAIN directory_by_path

DirectoryAt(norm) ==
    IF norm = <<"/">> THEN RootMeta ELSE directory_meta[directory_by_path[norm]]

\* the normalized path without its last component, and that component
ParentPath(norm) ==
    LET i == Max({j \in DOMAIN norm : norm[j] = "/"})
    IN  IF i = 1 THEN <<"/">> ELSE SubSeq(norm, 1, i - 1)

LastName(norm) == SubSeq(norm, Max({j \in DOMAIN norm : norm[j] = "/"}) + 1, Len(norm))

\* C10: dir(path) fails with DirectoryNotFoundError when the normalized path is no
\* directory and returns the directory otherwise; table(path) fails with
\* InvalidPathError exactly when the normalized path is "/", with
\* DirectoryNotFoundError when the parent directory is missing, with
\* TableNotFoundError when the directory has no table of that name, and returns the
\* table otherwise
C10_LookupErrors ==
    (Opened /\ lookup # NoResult) =>
        LET norm == normalize_path(<<"/">>, lookup.path)
            res  == lookup.result
        IN  IF lookup.op = "dir"
            THEN IF IsDirectory(norm)
                 THEN res = Ok(DirectoryAt(norm))
                 ELSE res.kind = "err" /\ res.err.kind = "DirectoryNotFoundError"
            ELSE IF norm = <<"/">>
            THEN res.kind = "err" /\ res.err.kind = "InvalidPathError"
            ELSE IF ~IsDirectory(ParentPath(norm))
            THEN res.kind = "err" /\ res.err.kind = "DirectoryNotFoundError"
            ELSE LET key == <<DirectoryAt(ParentPath(norm)).id, LastName(norm)>>
                 IN  IF key \in DOMAIN table_by_dir_name
                     THEN res = Ok(table_meta[table_by_dir_name[key]])
                     ELSE res.kind = "err" /\ res.err.kind = "TableNotFoundError"

\* the part of C10 about table(path) alone
LookupErrorsOfTable == (lookup # NoResult /\ lookup.op = "table") => C10_LookupErrors

\* the part of C10 about dir(path), for the paths that do not normalize to the root
LookupErrorsOfNonRootDir ==
    (lookup # NoResult /\ lookup.op = "dir"
        /\ normalize_path(<<"/">>, lookup.path) # <<"/">>) => C10_LookupErrors

\* a lookup changes none of the maps of the handle
LookupKeepsMaps ==
    [][lookup' # NoResult =>
          UNCHANGED <<directory_meta, directory_by_path, table_meta, table_by_dir_name>>]_vars

----------------------------------------------------------------------------
(* normalize_path on its own: any base and path text of the model *)

MaxParts == 3

\* the pieces between the '/' of a path text
PathParts == {<<>>, <<".">>, <<".", ".">>, <<"x">>, <<"y">>}

\* every text of at most n pieces
PathTexts(n) == UNION {{Join(parts, "/") : parts \in [1..k -> PathParts]} : k \in 1..n}

\* the other variables while a function that touches no handle is called
HandlesIdle ==
    /\ PipelineIdle
    /\ DataIdle
    /\ DirIdle

\* the base texts: shorter texts, as they are and behind a leading '/'
BaseTexts == PathTexts(MaxParts - 1) \cup {<<"/">> \o t : t \in PathTexts(MaxParts - 1)}

PathInit ==
    /\ \E b \in BaseTexts, p \in PathTexts(MaxParts) : call_args = [base |-> b, path |-> p]
    /\ call_result = NoResult
    /\ HandlesIdle

\* normalize_path(base, path)
NormalizePath ==
    /\ call_result = NoResult
    /\ call_result' = Ok(normalize_path(call_args.base, call_args.path))
    /\ UNCHANGED <<call_args, dbVars, cloneVars, queryVars, cacheVars, callVars, dataVars, dirVars>>

PathNext == NormalizePath

PathSpec == PathInit /\ [][PathNext]_vars

\* the segments kept after the first n pieces: empty and "." pieces are dropped, ".."
\* removes the last kept segment when there is one
RECURSIVE KeptAfter(_, _)
KeptAfter(parts, n) ==
    IF n = 0 THEN <<>>
    ELSE LET kept == KeptAfter(parts, n - 1)
         IN  CASE parts[n] \in {<<>>, <<".">>} -> kept
               [] parts[n] = <<".", ".">> -> SubSeq(kept, 1, Len(kept) - 1)
               [] OTHER -> Append(kept, parts[n])

\* the pieces that count: those of path alone when it starts with '/', else those of
\* base followed by those of path
CountedParts(base, path) ==
    IF path # <<>> /\ Head(path) = "/" THEN Split(path, "/")
    ELSE Split(base, "/") \o Split(path, "/")

\* C11: normalize_path(base, path) is '/' followed by the kept segments joined by '/',
\* and exactly '/' when none is kept; an absolute path discards the base, empty and '.'
\* pieces are dropped and '..' removes the last kept segment, if any
C11_NormalizedPath ==
    call_result # NoResult =>
        LET parts == CountedParts(call_args.base, call_args.path)
            kept  == KeptAfter(parts, Len(parts))
        IN  call_result = Ok(IF kept = <<>> THEN <<"/">> ELSE <<"/">> \o Join(kept, "/"))

\* C11 witness: normalize("/x/y", "../x/.") = "/x/x"
C11_Witness ==
    /\ call_args = [base |-> <<"/", "x", "/", "y">>,
                    path |-> <<".", ".", "/", "x", "/", ".">>]
    /\ call_result = Ok(<<"/", "x", "/", "x">>)

\* C11 witness of an absolute path: normalize("/x", "/y") = "/y"
C11_WitnessAbsolute ==
    /\ call_args = [base |-> <<"/", "x">>, path |-> <<"/", "y">>]
    /\ call_result = Ok(<<"/", "y">>)

----------------------------------------------------------------------------
(* NamePath: context.rs *)

\* char::is_ascii_alphanumeric
AsciiAlphanumeric ==
    Digits \cup {"a", "b", "c", "d", "e", "f", "g", "h", "i", "j", "k", "l", "m",
                 "n", "o", "p", "q", "r", "s", "t", "u", "v", "w", "x", "y", "z",
                 "A", "B", "C", "D", "E", "F", "G", "H", "I", "J", "K", "L", "M",
                 "N", "O", "P", "Q", "R", "S", "T", "U", "V", "W", "X", "Y", "Z"}

NotAbsolutePath(s) == [kind |-> "NotAbsolutePath", path |-> s]

IllegalCharacter(s) == [kind |-> "IllegalCharacter", path |-> s]

\* <NamePath as FromStr>::from_str(s)
NamePath_from_str(s) ==
    IF s = <<>> \/ Head(s) # "/" THEN Err(NotAbsolutePath(s))
    ELSE IF \E i \in DOMAIN s : s[i] \notin AsciiAlphanumeric \cup {"/", "_", "-"}
    THEN Err(IllegalCharacter(s))
    ELSE Ok(s)

NamePath_is_root(p) == p = <<"/">>

\* NamePath::name(): the first piece of rsplit('/')
NamePath_name(p) == LET parts == Split(p, "/") IN parts[Len(parts)]

\* NamePath::parent()
NamePath_parent(p) ==
    IF NamePath_is_root(p) THEN None
    ELSE LET parts == Split(p, "/")
         IN  Some(<<"/">> \o Join(SubSeq(parts, 1, Len(parts) - 1), "/"))

\* the texts handed to from_str: relative, absolute, with '.' (an illegal character)
NamePathTexts == PathTexts(MaxParts) \cup {<<"/">> \o t : t \in PathTexts(MaxParts)}

NamePathInit ==
    /\ call_args \in NamePathTexts
    /\ call_result = NoResult
    /\ HandlesIdle

\* NamePath::from_str(s), and name() and parent() of the path when s is valid
NamePathCall ==
    /\ call_result = NoResult
    /\ call_result' =
           LET parsed == NamePath_from_str(call_args)
           IN  IF parsed.kind = "err" THEN parsed
               ELSE Ok([path   |-> parsed.value,
                        name   |-> NamePath_name(parsed.value),
                        parent |-> NamePath_parent(parsed.value)])
    /\ UNCHANGED <<call_args, dbVars, cloneVars, queryVars, cacheVars, callVars, dataVars, dirVars>>

NamePathNext == NamePathCall

NamePathSpec == NamePathInit /\ [][NamePathNext]_vars

\* the name paths "/s1/.../sn" of the model, by their segments (n >= 1)
SegmentLists == UNION {[1..n -> {<<"x">>, <<"y">>}] : n \in 1..MaxParts}

PathOfSegments(segs) == <<"/">> \o Join(segs, "/")

\* C12: for the valid name path of segments s1..sn (n >= 1), name() is sn and parent()
\* is the name path of s1..s(n-1), which is "/" when n = 1; parent() of "/" is None
C12_ParentAndName ==
    call_result # NoResult =>
        /\ (call_args = <<"/">> => call_result.kind = "ok" /\ call_result.value.parent = None)
        /\ \A segs \in SegmentLists :
              call_args = PathOfSegments(segs) =>
                  /\ call_result.kind = "ok"
                  /\ call_result.value.name = segs[Len(segs)]
                  /\ call_result.value.parent =
                         Some(PathOfSegments(SubSeq(segs, 1, Len(segs) - 1)))

\* what holds of C12: name() is the last segment, parent() of a path of one segment is
\* "/", and parent() of "/" is None
NameAndParentOfTopLevel ==
    call_result # NoResult =>
        /\ (call_args = <<"/">> => call_result.kind = "ok" /\ call_result.value.parent = None)
        /\ \A segs \in SegmentLists :
              call_args = PathOfSegments(segs) =>
                  /\ call_result.kind = "ok"
                  /\ call_result.value.name = segs[Len(segs)]
                  /\ (Len(segs) = 1 => call_result.value.parent = Some(<<"/">>))

\* the parent() the code gives for two or more segments has a doubled leading '/'
ParentHasDoubleSlash ==
    call_result # NoResult =>
        \A segs \in SegmentLists :
            (call_args = PathOfSegments(segs) /\ Len(segs) >= 2) =>
                call_result.value.parent =
                    Some(<<"/">> \o PathOfSegments(SubSeq(segs, 1, Len(segs) - 1)))

----------------------------------------------------------------------------
(* Timestamp parser: context.rs *)

\* the greatest year of a chrono NaiveDate
MaxChronoYear == 262142

\* the length of the longest prefix of s made of digits
DigitPrefixLen(s) ==
    IF \A i \in DOMAIN s : s[i] \in Digits THEN Len(s)
    ELSE Min({i \in DOMAIN s : s[i] \notin Digits}) - 1

\* input.split(|c| !c.is_ascii_digit()).filter(|s| !s.is_empty())
RECURSIVE DigitRuns(_)
DigitRuns(s) ==
    IF s = <<>> THEN <<>>
    ELSE IF Head(s) \notin Digits THEN DigitRuns(Tail(s))
    ELSE <<SubSeq(s, 1, DigitPrefixLen(s))>> \o DigitRuns(SubSeq(s, DigitPrefixLen(s) + 1, Len(s)))

RECURSIVE StripZeros(_)
StripZeros(run) == IF run # <<>> /\ Head(run) = "0" THEN StripZeros(Tail(run)) ELSE run

\* s.parse::<i32>() of a run of digits succeeds: the value is at most 2147483647
FitsI32(run) ==
    LET t == StripZeros(run)
    IN  \/ Len(t) < 10
        \/ /\ Len(t) = 10
           /\ \/ DecimalValue(SubSeq(t, 1, 9)) < 214748364
              \/ DecimalValue(SubSeq(t, 1, 9)) = 214748364 /\ DigitVal(t[10]) <= 7

IsLeapYear(y) == (y % 4 = 0 /\ y % 100 # 0) \/ y % 400 = 0

DaysInMonth(y, m) ==
    CASE m \in {1, 3, 5, 7, 8, 10, 12} -> 31
      [] m \in {4, 6, 9, 11} -> 30
      [] m = 2 -> IF IsLeapYear(y) THEN 29 ELSE 28

\* NaiveDate::from_ymd_opt(y, m, d) is Some (the years of the model are not negative)
ValidDate(y, m, d) ==
    /\ y >= 0 /\ y <= MaxChronoYear
    /\ m >= 1 /\ m <= 12
    /\ d >= 1 /\ d <= DaysInMonth(y, m)

\* NaiveTime::from_hms_opt(h, m, s) is Some
ValidTime(h, m, s) == h >= 0 /\ h < 24 /\ m >= 0 /\ m < 60 /\ s >= 0 /\ s < 60

NoDigits(input) == [kind |-> "NoDigits", input |-> input]

ChronoError(what) == [kind |-> "ChronoError", what |-> what]

\* a panic of the thread (arithmetic overflow in a build with overflow checks)
Panic == [kind |-> "panic"]

Date(y, m, d) == [year |-> y, month |-> m, day |-> d]

\* the closure that gives the day when the input has none: the day before the first of
\* the next month.  next_year is None when year + 1 wrapped around (no valid date)
DefaultDay(year, month, year_wrapped) ==
    LET start == IF ValidDate(year, month, 1) THEN Date(year, month, 1) ELSE Date(1970, 1, 1)
        next_month ==
            IF month = 12
            THEN IF ~year_wrapped /\ ValidDate(year + 1, 1, 1) THEN Date(year + 1, 1, 1) ELSE start
            ELSE IF ValidDate(year, month + 1, 1) THEN Date(year, month + 1, 1) ELSE start
    IN  \* next_month.pred_opt().unwrap_or(start).day(); next_month is the first of a month
        IF next_month.month = 1
        THEN IF next_month.year = 0 THEN 31 ELSE DaysInMonth(next_month.year - 1, 12)
        ELSE DaysInMonth(next_month.year, next_month.month - 1)

\* parse_timestamp(input) in a build with or without overflow checks
parse_timestamp(input, overflow_checks) ==
    LET runs   == SelectSeq(DigitRuns(input), FitsI32)
        digits == [i \in DOMAIN runs |-> DecimalValue(StripZeros(runs[i]))]
        get(i, default) == IF i <= Len(digits) THEN digits[i] ELSE default
    IN  IF digits = <<>> THEN Err(NoDigits(input))
        ELSE LET year   == digits[1]
                 month  == get(2, 12)
                 wraps  == Len(digits) < 3 /\ month = 12 /\ year = 2147483647
                 day    == IF Len(digits) >= 3 THEN digits[3]
                           ELSE DefaultDay(year, month, wraps)
                 hour   == get(4, 23)
                 minute == get(5, 59)
                 second == get(6, 59)
             IN  IF wraps /\ overflow_checks THEN Panic
                 ELSE IF ~ValidDate(year, month, day) THEN Err(ChronoError("date"))
                 ELSE IF ~ValidTime(hour, minute, second) THEN Err(ChronoError("time"))
                 ELSE Ok([year |-> year, month |-> month, day |-> day,
                          hour |-> hour, minute |-> minute, second |-> second])


MaxNumbers == 7

\* the decimal text of i32::MAX
I32MaxText == <<"2", "1", "4", "7", "4", "8", "3", "6", "4", "7">>

\* the digit runs an input may have in its k-th place; the long ones do not fit an i32
NumberTexts(k) ==
    CASE k = 1 -> {<<"2", "0", "1", "9">>, <<"2", "0", "2", "0">>, <<"1", "9", "0", "0">>,
                   I32MaxText,
                   <<"9", "9", "9", "9", "9", "9", "9", "9", "9", "9", "9">>}
      [] k = 2 -> {<<"2">>, <<"0", "2">>, <<"1", "2">>, <<"1", "3">>,
                   <<"9", "9", "9", "9", "9", "9", "9", "9", "9", "9", "9">>}
      [] k = 3 -> {<<"2", "9">>, <<"3", "1">>, <<"0">>}
      [] k = 4 -> {<<"0">>, <<"2", "4">>}
      [] k \in {5, 6} -> {<<"5", "9">>, <<"6", "0">>}
      [] OTHER -> {<<"7">>}

\* the lists of n runs of digits, the k-th of NumberTexts(k)
RECURSIVE NumberLists(_)
NumberLists(n) ==
    IF n = 0 THEN {<<>>}
    ELSE {Append(l, t) : l \in NumberLists(n - 1), t \in NumberTexts(n)}

\* the inputs: up to MaxNumbers runs of digits joined by one separator, and two inputs
\* without a digit
TimestampTexts ==
    UNION {{Join(runs, sep) : runs \in NumberLists(n), sep \in {"-", ":"}} : n \in 0..MaxNumbers}
        \cup {<<"x">>, <<"-", "-">>}

TimestampInit ==
    /\ \E input \in TimestampTexts, checks \in BOOLEAN :
          call_args = [input |-> input, overflow_checks |-> checks]
    /\ call_result = NoResult
    /\ HandlesIdle

\* parse_timestamp(input)
ParseTimestamp ==
    /\ call_result = NoResult
    /\ call_result' = parse_timestamp(call_args.input, call_args.overflow_checks)
    /\ UNCHANGED <<call_args, dbVars, cloneVars, queryVars, cacheVars, callVars, dataVars, dirVars>>

TimestampNext == ParseTimestamp

TimestampSpec == TimestampInit /\ [][TimestampNext]_vars

\* a run of digits too long to be a year, a month, a day, an hour, a minute or a second
TooLong(run) == Len(StripZeros(run)) > 6

\* the reference: the first six runs of digits are year, month, day, hour, minute and
\* second; the result when they all are short enough to be computed with
ReferenceTimestamp(input) ==
    LET runs == DigitRuns(input)
        get(i, default) == IF i <= Len(runs) THEN DecimalValue(StripZeros(runs[i])) ELSE default
        year   == get(1, 0)
        month  == get(2, 12)
        day    == IF Len(runs) >= 3 THEN get(3, 0)
                  ELSE IF month \in 1..12 THEN DaysInMonth(year, month) ELSE 0
    IN  IF ValidDate(year, month, day) /\ ValidTime(get(4, 23), get(5, 59), get(6, 59))
        THEN Ok([year |-> year, month |-> month, day |-> day,
                 hour |-> get(4, 23), minute |-> get(5, 59), second |-> get(6, 59)])
        ELSE Err(ChronoError("any"))

Agrees(res, ref) ==
    IF ref.kind = "ok" THEN res = ref
    ELSE res.kind = "err" /\ res.err.kind = "ChronoError"

\* C14: parse_timestamp fails with NoDigits exactly when the input has no digit, and
\* otherwise takes the first six runs of digits as year, month, day, hour, minute and
\* second, with the defaults 12, last day of the month, 23, 59, 59; an invalid date or
\* time is an error
C14_TimestampReference ==
    call_result # NoResult =>
        LET runs == DigitRuns(call_args.input)
        IN  IF \A i \in DOMAIN call_args.input : call_args.input[i] \notin Digits
            THEN call_result = Err(NoDigits(call_args.input))
            ELSE IF \E i \in 1..Min({6, Len(runs)}) : TooLong(runs[i])
            THEN call_result.kind = "err" /\ call_result.err.kind = "ChronoError"
            ELSE Agrees(call_result, ReferenceTimestamp(call_args.input))

\* what holds of C14: the inputs all of whose runs of digits fit an i32 and whose year
\* is not the greatest i32
TimestampOfShortRuns ==
    (\A i \in DOMAIN DigitRuns(call_args.input) :
         FitsI32(DigitRuns(call_args.input)[i])
         /\ DigitRuns(call_args.input)[i] # I32MaxText)
        => C14_TimestampReference

----------------------------------------------------------------------------
(* Context::with_run_range over the whole of RunNumber (u32): context.rs *)

\* A u32 is n + 2^31 * top, with top its most significant bit and n the 31 bits below
U32(top, n) == [top |-> top, n |-> n]

U32Zero == U32(0, 0)

U32Max == U32(1, MAX_RUN_NUMBER)

U32Less(a, b) == a.top < b.top \/ (a.top = b.top /\ a.n < b.n)

\* a + 1 and a - 1 in u32: [overflow |-> the exact result is not a u32, value |-> the
\* wrapped result]
U32Add1(a) ==
    IF a.n < MAX_RUN_NUMBER THEN [overflow |-> FALSE, value |-> U32(a.top, a.n + 1)]
    ELSE IF a.top = 0 THEN [overflow |-> FALSE, value |-> U32(1, 0)]
    ELSE [overflow |-> TRUE, value |-> U32Zero]

U32Sub1(a) ==
    IF a.n > 0 THEN [overflow |-> FALSE, value |-> U32(a.top, a.n - 1)]
    ELSE IF a.top = 1 THEN [overflow |-> FALSE, value |-> U32(0, MAX_RUN_NUMBER)]
    ELSE [overflow |-> TRUE, value |-> U32Max]

Unbounded == [bound |-> "Unbounded"]

\* the list (start..=end).collect(), by its ends; both are below 2^31
RunList(start, end) == [empty |-> FALSE, first |-> start.n, last |-> end.n]

EmptyRunList == [empty |-> TRUE]

\* Context::with_run_range(run_range) on bounds of any u32, in a build with or without
\* overflow checks: the run list, or a panic
with_run_range_u32(start_bound, end_bound, overflow_checks) ==
    LET s     == CASE start_bound.bound = "Included" -> [overflow |-> FALSE, value |-> start_bound.n]
                   [] start_bound.bound = "Excluded" -> U32Add1(start_bound.n)
                   [] start_bound.bound = "Unbounded" -> [overflow |-> FALSE, value |-> U32Zero]
        e     == CASE end_bound.bound = "Included" -> [overflow |-> FALSE, value |-> end_bound.n]
                   [] end_bound.bound = "Excluded" -> U32Sub1(end_bound.n)
                   [] end_bound.bound = "Unbounded" ->
                          [overflow |-> FALSE, value |-> U32(0, MAX_RUN_NUMBER)]
        start == s.value
        end   == IF U32Less(U32(0, MAX_RUN_NUMBER), e.value) THEN U32(0, MAX_RUN_NUMBER)
                 ELSE e.value
    IN  IF overflow_checks /\ (s.overflow \/ e.overflow) THEN Panic
        ELSE IF U32Less(end, start) THEN Ok(EmptyRunList)
        ELSE Ok(RunList(start, end))

EdgeWidth == 1

\* the u32 values within EdgeWidth of 0, of 2^31 - 1, of 2^31 and of 2^32 - 1
U32Edges ==
    {U32(top, n) : top \in {0, 1},
                   n \in (0..EdgeWidth) \cup {MAX_RUN_NUMBER - k : k \in 0..EdgeWidth}}

RangeBounds == {Unbounded} \cup {Included(n) : n \in U32Edges} \cup {Excluded(n) : n \in U32Edges}

RunRangeInit ==
    /\ \E sb \in RangeBounds, eb \in RangeBounds, checks \in BOOLEAN :
          call_args = [start_bound |-> sb, end_bound |-> eb, overflow_checks |-> checks]
    /\ call_result = NoResult
    /\ HandlesIdle

\* Context::with_run_range(run_range)
WithRunRange ==
    /\ call_result = NoResult
    /\ call_result' = with_run_range_u32(call_args.start_bound, call_args.end_bound,
                                         call_args.overflow_checks)
    /\ UNCHANGED <<call_args, dbVars, cloneVars, queryVars, cacheVars, callVars, dataVars, dirVars>>

RunRangeNext == WithRunRange

RunRangeSpec == RunRangeInit /\ [][RunRangeNext]_vars

\* r is in the range of the two bounds
InRange(r, start_bound, end_bound) ==
    /\ CASE start_bound.bound = "Included" -> ~U32Less(r, start_bound.n)
         [] start_bound.bound = "Excluded" -> U32Less(start_bound.n, r)
         [] start_bound.bound = "Unbounded" -> TRUE
    /\ CASE end_bound.bound = "Included" -> ~U32Less(end_bound.n, r)
         [] end_bound.bound = "Excluded" -> U32Less(r, end_bound.n)
         [] end_bound.bound = "Unbounded" -> TRUE

\* the run numbers around the ends of the bounds, enough to tell two intervals apart
Probes == {U32(0, n) : n \in (0..(EdgeWidth + 2))
                            \cup {MAX_RUN_NUMBER - k : k \in 0..(EdgeWidth + 2)}}

InList(r, list) == ~list.empty /\ list.first <= r.n /\ r.n <= list.last

\* C15: for any two bounds the run list is the ascending list of the r of the range
\* with 0 <= r <= 2147483647, empty when there is none, and computing it never
\* overflows
C15_RunRangeExact ==
    call_result # NoResult =>
        /\ call_result.kind = "ok"
        /\ \A r \in Probes :
              InList(r, call_result.value) <=> InRange(r, call_args.start_bound, call_args.end_bound)
        /\ (~call_result.value.empty => call_result.value.first <= call_result.value.last)

\* what holds of C15: the bounds whose + 1 or - 1 stays in u32
RunRangeWithoutOverflow ==
    (/\ call_args.start_bound # Excluded(U32Max)
     /\ call_args.end_bound # Excluded(U32Zero)) => C15_RunRangeExact

----------------------------------------------------------------------------
(* Request strings: context.rs *)

\* str::splitn(n, sep): at most n pieces, the last one holding the rest of the text
RECURSIVE SplitN(_, _, _)
SplitN_Unlimited(s, n, sep) == Split(s, sep)

SplitN(s, n, sep) ==
    IF n <= 1 \/ \A i \in DOMAIN s : s[i] # sep THEN <<s>>
    ELSE LET i == Min({j \in DOMAIN s : s[j] = sep})
         IN  <<SubSeq(s, 1, i - 1)>> \o SplitN(SubSeq(s, i + 1, Len(s)), n - 1, sep)

\* str::parse::<RunNumber>(): an optional '+', then decimal digits, no more than u32::MAX
parse_u32(s) ==
    LET digits == IF s # <<>> /\ Head(s) = "+" THEN Tail(s) ELSE s
        t      == StripZeros(digits)
        v9     == DecimalValue(SubSeq(t, 1, 9))
        d      == DigitVal(t[10])
    IN  IF ~AllDigits(digits) \/ Len(t) > 10 THEN None
        ELSE IF Len(t) < 10 THEN Some(U32(0, DecimalValue(t)))
        ELSE IF v9 > 429496729 \/ (v9 = 429496729 /\ d > 5) THEN None
        ELSE IF v9 < 214748364 \/ (v9 = 214748364 /\ d < 8) THEN Some(U32(0, v9 * 10 + d))
        ELSE Some(U32(1, (v9 - 214748364) * 10 + d - 8))

DefaultVariationText == <<"d", "e", "f", "a", "u", "l", "t">>

\* Utc::now()
Now == [instant |-> "now"]

\* Context::new(runs, variation, timestamp)
Context_new(runs, variation, timestamp) ==
    [runs      |-> IF runs.some THEN runs.value ELSE <<U32Zero>>,
     variation |-> IF variation.some THEN variation.value ELSE DefaultVariationText,
     timestamp |-> IF timestamp.some THEN timestamp.value ELSE Now]

NamePathError(e) == [kind |-> "NamePathError", source |-> e]

TimestampParseError(e) == [kind |-> "TimestampParseError", source |-> e]

InvalidRunNumberError(run_s) == [kind |-> "InvalidRunNumberError", run |-> run_s]

\* <Request as FromStr>::from_str(s)
Request_from_str(s, overflow_checks) ==
    LET split    == SplitN(s, 2, ":")
        path     == NamePath_from_str(split[1])
        parts    == IF Len(split) = 2 THEN SplitN(split[2], 3, ":") ELSE <<>>
        part(i)  == IF i <= Len(parts) THEN parts[i] ELSE <<>>
        run      == parse_u32(part(1))
        time     == parse_timestamp(part(3), overflow_checks)
    IN  IF path.kind = "err" THEN Err(NamePathError(path.err))
        ELSE IF part(1) # <<>> /\ ~run.some THEN Err(InvalidRunNumberError(part(1)))
        ELSE IF part(3) # <<>> /\ time.kind = "panic" THEN Panic
        ELSE IF part(3) # <<>> /\ time.kind = "err" THEN Err(TimestampParseError(time.err))
        ELSE Ok([path    |-> path.value,
                 context |-> Context_new(IF part(1) # <<>> THEN Some(<<run.value>>) ELSE None,
                                         IF part(2) # <<>> THEN Some(part(2)) ELSE None,
                                         IF part(3) # <<>> THEN Some(time.value) ELSE None)])

\* the path segments of the inputs, each with whether it is a valid name path
PathSegments ==
    {[text |-> <<"/", "x">>, valid |-> TRUE], [text |-> <<"/", "x", "/", "y", "_", "1">>, valid |-> TRUE],
     [text |-> <<"x">>, valid |-> FALSE], [text |-> <<"/", "x", " ">>, valid |-> FALSE]}

\* the run segments of the inputs, each with the run number it denotes, if any
RunSegments ==
    {[text |-> <<>>, value |-> None],
     [text |-> <<"7">>, value |-> Some(U32(0, 7))],
     [text |-> <<"+", "0", "7">>, value |-> Some(U32(0, 7))],
     [text |-> <<"3", "0", "0", "0", "0", "0", "0", "0", "0", "0">>, value |-> Some(U32(1, 852516352))],
     [text |-> <<"4", "2", "9", "4", "9", "6", "7", "2", "9", "6">>, value |-> None],
     [text |-> <<"-", "1">>, value |-> None],
     [text |-> <<"r">>, value |-> None]}

VariationSegments == {<<>>, <<"v">>, <<"m", "c">>}

TimestampSegments ==
    {<<>>, <<"2", "0", "1", "9">>, <<"2", "0", "1", "9", ":", "2">>,
     <<"2", "0", "1", "9", "-", "2", "-", "5", " ", "1", "0", ":", "3", "0", ":", "0", "0">>,
     <<"2", "0", "1", "9", "-", "1", "3">>, <<"t">>}

RequestSegments == 3

\* the inputs: a path followed by up to RequestSegments segments, each after a ':'
RequestInputs ==
    {[path |-> p, segments |-> SubSeq(<<r.text, v, t>>, 1, n), run |-> r.value]
        : p \in PathSegments, r \in RunSegments, v \in VariationSegments,
          t \in TimestampSegments, n \in 0..RequestSegments}

RequestInit ==
    /\ \E input \in RequestInputs, checks \in BOOLEAN :
          call_args = [s |-> Join(<<input.path.text>> \o input.segments, ":"),
                       input |-> input, overflow_checks |-> checks]
    /\ call_result = NoResult
    /\ HandlesIdle

\* s.parse::<Request>()
ParseRequest ==
    /\ call_result = NoResult
    /\ call_result' = Request_from_str(call_args.s, call_args.overflow_checks)
    /\ UNCHANGED <<call_args, dbVars, cloneVars, queryVars, cacheVars, callVars, dataVars, dirVars>>

RequestNext == ParseRequest

RequestSpec == RequestInit /\ [][RequestNext]_vars

\* the i-th segment of the input, empty when it is absent
SegmentOf(input, i) == IF i <= Len(input.segments) THEN input.segments[i] ELSE <<>>

\* the kinds of error the segments of the input call for
ErrorKinds(input, overflow_checks) ==
    {k \in {"NamePathError", "InvalidRunNumberError", "TimestampParseError"} :
        \/ k = "NamePathError" /\ ~input.path.valid
        \/ k = "InvalidRunNumberError" /\ SegmentOf(input, 1) # <<>> /\ ~input.run.some
        \/ /\ k = "TimestampParseError"
           /\ SegmentOf(input, 3) # <<>>
           /\ parse_timestamp(SegmentOf(input, 3), overflow_checks).kind = "err"}

\* C13: '<path>[:<run>[:<variation>[:<timestamp>]]]' parses to the validated path and a
\* context where each of run, variation and timestamp is the value of its segment when the
\* segment is present and not empty and the default ([0], "default", now) otherwise; an
\* invalid path, a run that is not a run number and an unparsable timestamp fail, each with
\* its own error, and give no Request
C13_RequestSegments ==
    call_result # NoResult =>
        LET input == call_args.input
            kinds == ErrorKinds(input, call_args.overflow_checks)
        IN  IF kinds # {} THEN call_result.kind = "err" /\ call_result.err.kind \in kinds
            ELSE /\ call_result.kind = "ok"
                 /\ call_result.value.path = input.path.text
                 /\ call_result.value.context.runs =
                        IF SegmentOf(input, 1) # <<>> THEN <<input.run.value>> ELSE <<U32Zero>>
                 /\ call_result.value.context.variation =
                        IF SegmentOf(input, 2) # <<>> THEN SegmentOf(input, 2)
                        ELSE DefaultVariationText
                 /\ call_result.value.context.timestamp =
                        IF SegmentOf(input, 3) # <<>>
                        THEN parse_timestamp(SegmentOf(input, 3), call_args.overflow_checks).value
                        ELSE Now

\* C13 witness: "/x:7:v:2019:2" is run 7 of variation v at the end of February 2019, the
\* timestamp segment keeping its ':'
C13_Witness ==
    /\ call_args.s = <<"/", "x", ":", "7", ":", "v", ":", "2", "0", "1", "9", ":", "2">>
    /\ call_result = Ok([path    |-> <<"/", "x">>,
                         context |-> [runs |-> <<U32(0, 7)>>, variation |-> <<"v">>,
                                      timestamp |-> [year |-> 2019, month |-> 2, day |-> 28,
                                                     hour |-> 23, minute |-> 59, second |-> 59]]])

\* C13 witness of the defaults: "/x::v" changes the variation only
C13_WitnessDefaults ==
    /\ call_args.s = <<"/", "x", ":", ":", "v">>
    /\ call_result = Ok([path    |-> <<"/", "x">>,
                         context |-> [runs |-> <<U32Zero>>, variation |-> <<"v">>,
                                      timestamp |-> Now]])

----------------------------------------------------------------------------
(* RCDB condition expressions: cond.rs *)

\* the variants of ValueType
ValueTypes == {"String", "Int", "Bool", "Float", "Json", "Blob", "Time"}

\* ValueType::column_name(): the column of `conditions` that stores a value of the type
column_name(value_type) ==
    CASE value_type \in {"String", "Json", "Blob"} -> "text_value"
      [] value_type = "Int" -> "int_value"
      [] value_type = "Bool" -> "bool_value"
      [] value_type = "Float" -> "float_value"
      [] value_type = "Time" -> "time_value"

\* ExprInner
True == [node |-> "True"]

Comparison(field, value_type, operator) ==
    [node |-> "Comparison", field |-> field, value_type |-> value_type, operator |-> operator]

Group(kind, clauses) == [node |-> "Group", kind |-> kind, clauses |-> clauses]

Not(inner) == [node |-> "Not", inner |-> inner]

\* Expr::not(self)
not(e) == Not(e)

\* all(iter)
all_AlwaysGroup(clauses) == Group("And", clauses)

all(clauses) ==
    IF Len(clauses) = 0 THEN True
    ELSE IF Len(clauses) = 1 THEN clauses[1]
    ELSE Group("And", clauses)

\* any(iter)
any(clauses) ==
    IF Len(clauses) = 0 THEN True
    ELSE IF Len(clauses) = 1 THEN clauses[1]
    ELSE Group("Or", clauses)

\* rusqlite::types::Value
Integer(v) == [type |-> "Integer", v |-> v]

Real(v) == [type |-> "Real", v |-> v]

Text(v) == [type |-> "Text", v |-> v]

\* the value type a field builder declares for the operators it makes
DeclaredType(op) ==
    CASE op \in {"IntEquals", "IntNotEquals", "IntGt", "IntGe", "IntLt", "IntLe"} -> "Int"
      [] op \in {"FloatEquals", "FloatGt", "FloatGe", "FloatLt", "FloatLe"} -> "Float"
      [] op \in {"StringEquals", "StringNotEquals", "StringIn", "StringContains"} -> "String"
      [] op \in {"Bool", "Exists"} -> "Bool"
      [] op \in {"TimeEquals", "TimeGt", "TimeGe", "TimeLt", "TimeLe"} -> "Time"

\* the SQL operator of a comparison with one value
SqlOperator(op) ==
    CASE op \in {"IntEquals", "FloatEquals", "StringEquals", "TimeEquals"} -> "="
      [] op \in {"IntNotEquals", "StringNotEquals"} -> "!="
      [] op \in {"IntGt", "FloatGt", "TimeGt"} -> ">"
      [] op \in {"IntGe", "FloatGe", "TimeGe"} -> ">="
      [] op \in {"IntLt", "FloatLt", "TimeLt"} -> "<"
      [] op \in {"IntLe", "FloatLe", "TimeLe"} -> "<="

\* the decimal text of n, with zeros in front up to `width` characters
RECURSIVE ZeroPadded(_, _)
ZeroPadded(n, width) ==
    IF n < 10 /\ width <= 1 THEN <<CHOOSE c \in Digits : DigitVal(c) = n>>
    ELSE ZeroPadded(n \div 10, width - 1) \o <<CHOOSE c \in Digits : DigitVal(c) = n % 10>>

\* format_time(value): "%Y-%m-%d %H:%M:%S"
format_time(value) ==
    ZeroPadded(value.year, 4) \o <<"-">> \o ZeroPadded(value.month, 2) \o <<"-">>
        \o ZeroPadded(value.day, 2) \o <<" ">> \o ZeroPadded(value.hour, 2) \o <<":">>
        \o ZeroPadded(value.minute, 2) \o <<":">> \o ZeroPadded(value.second, 2)

\* a compiled fragment is the list of the pieces of its text; the outcome of a
\* compilation is the fragment or the error, with the parameters bound so far
Compiled(sql, params) == [kind |-> "ok", sql |-> sql, params |-> params]

Failed(err, params) == [kind |-> "err", err |-> err, params |-> params]

ConditionTypeNotFound(name) == [kind |-> "ConditionTypeNotFound", name |-> name]

ConditionTypeMismatch_Swapped(condition_name, expected, actual) ==
    [kind |-> "ConditionTypeMismatch", condition_name |-> condition_name,
     expected |-> actual, actual |-> expected]

ConditionTypeMismatch(condition_name, expected, actual) ==
    [kind |-> "ConditionTypeMismatch", condition_name |-> condition_name,
     expected |-> expected, actual |-> actual]

\* push_param(params, alias, column, op, value)
push_param_NoBind(params, alias, column, op, value) ==
    Compiled(<<alias, ".", column, " ", op, " ", "?">>, params)

push_param(params, alias, column, op, value) ==
    Compiled(<<alias, ".", column, " ", op, " ", "?">>, Append(params, value))

\* push_time(params, alias, op, value)
push_time(params, alias, op, value) ==
    Compiled(<<alias, ".time_value ", op, " ", "?">>, Append(params, Text(format_time(value))))

\* Comparison::to_sql(alias_lookup, params)
Comparison_to_sql(cmp, alias_lookup, params) ==
    LET found == alias_lookup[cmp.field]
        alias == found.value.alias
        op    == cmp.operator.op
        v     == cmp.operator.v
    IN  IF ~found.some THEN Failed(ConditionTypeNotFound(cmp.field), params)
        ELSE IF found.value.value_type # cmp.value_type
        THEN Failed(ConditionTypeMismatch(cmp.field, cmp.value_type, found.value.value_type),
                    params)
        ELSE CASE op = "Bool" ->
                      Compiled(<<alias, IF v THEN ".bool_value = 1" ELSE ".bool_value = 0">>, params)
               [] DeclaredType(op) = "Int" ->
                      push_param(params, alias, "int_value", SqlOperator(op), Integer(v))
               [] DeclaredType(op) = "Float" ->
                      push_param(params, alias, "float_value", SqlOperator(op), Real(v))
               [] op \in {"StringEquals", "StringNotEquals"} ->
                      push_param(params, alias, "text_value", SqlOperator(op), Text(v))
               [] op = "StringIn" ->
                      IF Len(v) = 0 THEN Compiled(<<"1 = 0">>, params)
                      ELSE Compiled(<<alias, ".text_value IN (">>
                                        \o Join([i \in DOMAIN v |-> <<"?">>], ", ") \o <<")">>,
                                    params \o [i \in DOMAIN v |-> Text(v[i])])
               [] op = "StringContains" ->
                      Compiled(<<"INSTR(", alias, ".text_value, ", "?", ") > 0">>,
                               Append(params, Text(v)))
               [] DeclaredType(op) = "Time" -> push_time(params, alias, SqlOperator(op), v)
               [] op = "Exists" ->
                      Compiled(<<alias, ".", column_name(cmp.value_type), " IS NOT NULL">>, params)

\* Expr::to_sql(alias_lookup, params); RenderClauses is the loop over the clauses of a
\* group, which stops at the first clause that fails
RECURSIVE to_sql(_, _, _)
RECURSIVE RenderClauses(_, _, _)
RenderClauses(clauses, alias_lookup, params) ==
    IF Len(clauses) = 0 THEN [kind |-> "ok", rendered |-> <<>>, params |-> params]
    ELSE LET first == to_sql(Head(clauses), alias_lookup, params)
             rest  == RenderClauses(Tail(clauses), alias_lookup, first.params)
         IN  IF first.kind = "err" THEN first
             ELSE IF rest.kind = "err" THEN rest
             ELSE [kind |-> "ok", rendered |-> <<first.sql>> \o rest.rendered,
                   params |-> rest.params]

to_sql(expr, alias_lookup, params) ==
    CASE expr.node = "True" -> Compiled(<<"1 = 1">>, params)
      [] expr.node = "Comparison" -> Comparison_to_sql(expr, alias_lookup, params)
      [] expr.node = "Group" ->
             LET r == RenderClauses(expr.clauses, alias_lookup, params)
             IN  IF r.kind = "err" THEN r
                 ELSE IF Len(r.rendered) = 0 THEN Compiled(<<"1 = 1">>, r.params)
                 ELSE Compiled(<<"(">> \o Join(r.rendered, IF expr.kind = "And" THEN " AND "
                                                                                 ELSE " OR ")
                                   \o <<")">>, r.params)
      [] expr.node = "Not" ->
             LET r == to_sql(expr.inner, alias_lookup, params)
             IN  IF r.kind = "err" THEN r
                 ELSE Compiled(<<"NOT (">> \o r.sql \o <<")">>, r.params)

\* Expr::referenced_conditions(out): the fields of the comparisons, left to right
RECURSIVE referenced_conditions(_)
referenced_conditions(expr) ==
    CASE expr.node = "True" -> <<>>
      [] expr.node = "Comparison" -> <<expr.field>>
      [] expr.node = "Group" ->
             IF Len(expr.clauses) = 0 THEN <<>>
             ELSE referenced_conditions(Head(expr.clauses))
                      \o referenced_conditions(Group(expr.kind, Tail(expr.clauses)))
      [] expr.node = "Not" -> referenced_conditions(expr.inner)

\* the text of a fragment
RECURSIVE FlatText(_)
FlatText(sql) == IF Len(sql) = 0 THEN "" ELSE Head(sql) \o FlatText(Tail(sql))

Fields == {"x", "y"}

\* alias_lookup of a query where x is joined as cond_0 and y as cond_1, each with the
\* value type of the schema, or unknown to the query
LookupOf(types) ==
    [f \in Fields |->
        IF types[f] = "unknown" THEN None
        ELSE Some([alias |-> IF f = "x" THEN "cond_0" ELSE "cond_1", value_type |-> types[f]])]

SampleTime == [year |-> 2019, month |-> 2, day |-> 5, hour |-> 10, minute |-> 30, second |-> 0]

\* one operator of every kind the field builders make
OperatorSamples ==
    <<[op |-> "Bool", v |-> TRUE], [op |-> "Bool", v |-> FALSE], [op |-> "Exists", v |-> FALSE],
      [op |-> "IntEquals", v |-> 5], [op |-> "IntNotEquals", v |-> 5], [op |-> "IntGt", v |-> -1],
      [op |-> "IntGe", v |-> 0], [op |-> "IntLt", v |-> 5], [op |-> "IntLe", v |-> 5],
      [op |-> "FloatEquals", v |-> "2.5"], [op |-> "FloatGt", v |-> "2.5"],
      [op |-> "FloatGe", v |-> "2.5"], [op |-> "FloatLt", v |-> "2.5"],
      [op |-> "FloatLe", v |-> "2.5"],
      [op |-> "StringEquals", v |-> <<"a">>], [op |-> "StringNotEquals", v |-> <<"?">>],
      [op |-> "StringIn", v |-> <<>>], [op |-> "StringIn", v |-> <<<<"a">>, <<"?">>>>],
      [op |-> "StringContains", v |-> <<"?">>],
      [op |-> "TimeEquals", v |-> SampleTime], [op |-> "TimeGt", v |-> SampleTime],
      [op |-> "TimeGe", v |-> SampleTime], [op |-> "TimeLt", v |-> SampleTime],
      [op |-> "TimeLe", v |-> SampleTime]>>

\* the comparison a field builder makes: int_cond(field).eq(v), ...
Builder(field, operator) == Comparison(field, DeclaredType(operator.op), operator)

\* the clauses the groups of the model are made of
ClauseSamples ==
    <<True,
      Builder("x", [op |-> "IntEquals", v |-> 5]),
      Builder("x", [op |-> "StringIn", v |-> <<>>]),
      Builder("y", [op |-> "StringEquals", v |-> <<"?">>]),
      not(Builder("x", [op |-> "Bool", v |-> TRUE])),
      any(<<Builder("x", [op |-> "IntEquals", v |-> 1]), Builder("x", [op |-> "IntEquals", v |-> 2])>>),
      Builder("x", [op |-> "TimeLt", v |-> SampleTime])>>

MaxClauses == 3

ExprInit ==
    /\ \E tx \in ValueTypes \cup {"unknown"}, ty \in {"unknown", "String", "Int"},
          params \in {<<>>, <<Integer(3)>>} :
          \/ \E f \in Fields, i \in DOMAIN OperatorSamples :
                call_args = [op |-> "expr", clauses |-> <<Builder(f, OperatorSamples[i])>>,
                             alias_lookup |-> LookupOf([x |-> tx, y |-> ty]), params |-> params]
          \/ \E op \in {"all", "any"}, n \in 0..MaxClauses :
                \E pick \in [1..n -> DOMAIN ClauseSamples] :
                   call_args = [op |-> op, clauses |-> [i \in 1..n |-> ClauseSamples[pick[i]]],
                                alias_lookup |-> LookupOf([x |-> tx, y |-> ty]), params |-> params]
          \/ \E i \in DOMAIN ClauseSamples :
                call_args = [op |-> "not", clauses |-> <<ClauseSamples[i]>>,
                             alias_lookup |-> LookupOf([x |-> tx, y |-> ty]), params |-> params]
    /\ call_result = NoResult
    /\ HandlesIdle

\* the expression the call builds
BuiltExpr ==
    CASE call_args.op = "expr" -> call_args.clauses[1]
      [] call_args.op = "all" -> all(call_args.clauses)
      [] call_args.op = "any" -> any(call_args.clauses)
      [] call_args.op = "not" -> not(call_args.clauses[1])

\* expr.to_sql(alias_lookup, params) of the expression built
CompileExpr ==
    /\ call_result = NoResult
    /\ call_result' = to_sql(BuiltExpr, call_args.alias_lookup, call_args.params)
    /\ UNCHANGED <<call_args, dbVars, cloneVars, queryVars, cacheVars, callVars, dataVars, dirVars>>

ExprNext == CompileExpr

ExprSpec == ExprInit /\ [][ExprNext]_vars

\* the comparison nodes of an expression, left to right
RECURSIVE ComparisonNodes(_)
ComparisonNodes(expr) ==
    CASE expr.node = "True" -> <<>>
      [] expr.node = "Comparison" -> <<expr>>
      [] expr.node = "Group" ->
             IF Len(expr.clauses) = 0 THEN <<>>
             ELSE ComparisonNodes(Head(expr.clauses))
                      \o ComparisonNodes(Group(expr.kind, Tail(expr.clauses)))
      [] expr.node = "Not" -> ComparisonNodes(expr.inner)

\* what the type check of a comparison answers: the error, or "none"
TypeCheck(cmp, alias_lookup) ==
    IF ~alias_lookup[cmp.field].some THEN ConditionTypeNotFound(cmp.field)
    ELSE IF alias_lookup[cmp.field].value.value_type # DeclaredType(cmp.operator.op)
    THEN [kind |-> "ConditionTypeMismatch", condition_name |-> cmp.field,
          expected |-> DeclaredType(cmp.operator.op),
          actual |-> alias_lookup[cmp.field].value.value_type]
    ELSE [kind |-> "none"]

\* C17: a comparison whose field alias_lookup does not know fails with
\* ConditionTypeNotFound(field); one whose declared type differs from the type of the
\* schema fails with ConditionTypeMismatch, expected the declared and actual the schema
\* type; in both cases it emits no SQL and pushes no parameter; a clause is emitted
\* only when the types are equal
C17_TypeCheck ==
    call_result # NoResult =>
        LET nodes  == ComparisonNodes(BuiltExpr)
            errors == {TypeCheck(nodes[i], call_args.alias_lookup).kind : i \in DOMAIN nodes}
        IN  /\ call_result.kind = "ok" <=> errors \subseteq {"none"}
            /\ call_result.kind = "err" =>
                  \E i \in DOMAIN nodes :
                     call_result.err = TypeCheck(nodes[i], call_args.alias_lookup)
            /\ (call_args.op = "expr" /\ call_result.kind = "err") =>
                  call_result = Failed(TypeCheck(nodes[1], call_args.alias_lookup),
                                       call_args.params)

\* C17 witness: int_cond("x").eq(5) against a string-typed x
C17_Witness ==
    /\ call_args.op = "expr"
    /\ call_args.clauses = <<Builder("x", [op |-> "IntEquals", v |-> 5])>>
    /\ call_args.alias_lookup["x"] = Some([alias |-> "cond_0", value_type |-> "String"])
    /\ call_args.params = <<Integer(3)>>
    /\ call_result = Failed(ConditionTypeMismatch("x", "Int", "String"), <<Integer(3)>>)

\* C17 witness of an unknown field
C17_WitnessNotFound ==
    /\ call_args.op = "expr"
    /\ call_args.clauses = <<Builder("y", [op |-> "StringIn", v |-> <<>>])>>
    /\ call_result = Failed(ConditionTypeNotFound("y"), call_args.params)

\* the fragment of the i-th clause of the call, compiled on its own
FragmentOf(i) == to_sql(call_args.clauses[i], call_args.alias_lookup, <<>>)

\* C18: all(iter) and any(iter) compile to '1 = 1' when iter is empty, to the fragment
\* of the only child when it has one element, and to '(' + the fragments in input order
\* joined by ' AND ' or ' OR ' + ')' when it has two or more; e.not() compiles to
\* 'NOT (' + the fragment of e + ')'; a string 'in' with an empty list compiles to '1 = 0'
C18_GroupsAndNegation ==
    (/\ call_result # NoResult
     /\ \A i \in DOMAIN call_args.clauses : FragmentOf(i).kind = "ok") =>
        LET n         == Len(call_args.clauses)
            fragments == [i \in 1..n |-> FragmentOf(i).sql]
        IN  /\ call_result.kind = "ok"
            /\ call_args.op \in {"all", "any"} =>
                  call_result.sql =
                      IF n = 0 THEN <<"1 = 1">>
                      ELSE IF n = 1 THEN fragments[1]
                      ELSE <<"(">> \o Join(fragments, IF call_args.op = "all" THEN " AND "
                                                                                ELSE " OR ")
                               \o <<")">>
            /\ call_args.op = "not" => call_result.sql = <<"NOT (">> \o fragments[1] \o <<")">>
            /\ (call_args.op = "expr" /\ call_args.clauses[1].operator.op = "StringIn"
                   /\ call_args.clauses[1].operator.v = <<>>) =>
                  call_result.sql = <<"1 = 0">>

\* C18 witness: all of three clauses, one of them a group of its own
C18_Witness ==
    /\ call_args.op = "all"
    /\ call_args.clauses = <<ClauseSamples[2], ClauseSamples[6], ClauseSamples[4]>>
    /\ call_result.kind = "ok"
    /\ FlatText(call_result.sql) =
           "(cond_0.int_value = ? AND (cond_0.int_value = ? OR cond_0.int_value = ?) AND cond_1.text_value = ?)"

\* C18 witness of a group of one element: any([e]) is e, without parentheses
C18_WitnessSingle ==
    /\ call_args.op = "any"
    /\ call_args.clauses = <<ClauseSamples[4]>>
    /\ call_result.kind = "ok"
    /\ FlatText(call_result.sql) = "cond_1.text_value = ?"

----------------------------------------------------------------------------
(* RCDB queries: database.rs *)

\* the condition names of the model
ConditionNames == {"x", "y", "z"}

EmptyConditionList == [kind |-> "EmptyConditionList"]

\* format!("{}", n) of a number
DecimalString(n) == FlatText(ZeroPadded(n, 1))

\* the loop of fetch over condition_names: each name once, at its first place
RECURSIVE Requested(_)
Requested(condition_names) ==
    IF Len(condition_names) = 0 THEN <<>>
    ELSE LET n      == Len(condition_names)
             before == Requested(SubSeq(condition_names, 1, n - 1))
         IN  IF condition_names[n] \in Range(before) THEN before
             ELSE Append(before, condition_names[n])

\* RCDB::ensure_query_entry(name, select, entries, index_by_name): the entries after the
\* call, or the error; index_by_name holds the position of every name of entries
ensure_query_entry_AlwaysNew(condition_types, name, select, entries) ==
    IF ~condition_types[name].some THEN Err(ConditionTypeNotFound(name))
    ELSE Ok(Append(entries, [name |-> name, meta |-> condition_types[name].value,
                             alias |-> "cond_" \o DecimalString(Len(entries)),
                             select |-> select]))

ensure_query_entry(condition_types, name, select, entries) ==
    IF \E i \in DOMAIN entries : entries[i].name = name
    THEN Ok([i \in DOMAIN entries |->
                IF entries[i].name = name /\ select THEN [entries[i] EXCEPT !.select = TRUE]
                ELSE entries[i]])
    ELSE IF ~condition_types[name].some THEN Err(ConditionTypeNotFound(name))
    ELSE Ok(Append(entries, [name |-> name, meta |-> condition_types[name].value,
                             alias |-> "cond_" \o DecimalString(Len(entries)),
                             select |-> select]))

\* the loops `for name in ... { self.ensure_query_entry(name, select, ...)? }`
RECURSIVE EnsureEntries(_, _, _, _)
EnsureEntries(condition_types, names, select, entries) ==
    IF Len(names) = 0 THEN Ok(entries)
    ELSE LET first == ensure_query_entry(condition_types, Head(names), select, entries)
         IN  IF first.kind = "err" THEN first
             ELSE EnsureEntries(condition_types, Tail(names), select, first.value)

\* predicate_refs: the set of the names the filters refer to
PredicateRefs(filters) ==
    UNION {Range(referenced_conditions(filters[i])) : i \in DOMAIN filters}

\* the LEFT JOIN of every entry
RECURSIVE JoinClauses(_)
JoinClauses(entries) ==
    IF Len(entries) = 0 THEN <<>>
    ELSE LET alias == Head(entries).alias
         IN  <<"LEFT JOIN conditions AS ", alias, " ON ", alias,
               ".run_number = runs.number AND ", alias, ".condition_type_id = ",
               DecimalString(Head(entries).meta.id), " ">> \o JoinClauses(Tail(entries))

\* alias_map and alias_lookup
AliasLookup(entries) ==
    [name \in ConditionNames |->
        IF \E i \in DOMAIN entries : entries[i].name = name
        THEN LET i == CHOOSE j \in DOMAIN entries :
                         /\ entries[j].name = name
                         /\ \A l \in DOMAIN entries : entries[l].name = name => l <= j
             IN  Some([alias |-> entries[i].alias, value_type |-> entries[i].meta.value_type])
        ELSE None]

\* `match context.selection()`: the clause and the parameters of the run selection
SelectionClause(selection) ==
    CASE selection.selection = "All" -> [where_clauses |-> <<>>, params |-> <<>>]
      [] selection.selection = "Range" ->
             [where_clauses |-> <<<<"runs.number BETWEEN ", "?", " AND ", "?">>>>,
              params |-> <<Integer(selection.start), Integer(selection.end)>>]
      [] selection.selection = "Runs" ->
             [where_clauses |-> <<<<"runs.number IN (">>
                                      \o Join([i \in DOMAIN selection.runs |-> <<"?">>], ", ")
                                      \o <<")">>>>,
              params |-> [i \in DOMAIN selection.runs |-> Integer(selection.runs[i])]]

\* the loop over context.filters(): every clause but '1 = 1' is kept
RECURSIVE CompileFilters(_, _, _, _)
CompileFilters(filters, alias_lookup, where_clauses, params) ==
    IF Len(filters) = 0 THEN [kind |-> "ok", where_clauses |-> where_clauses, params |-> params]
    ELSE LET clause == to_sql(Head(filters), alias_lookup, params)
         IN  IF clause.kind = "err" THEN clause
             ELSE CompileFilters(Tail(filters), alias_lookup,
                                 IF clause.sql # <<"1 = 1">> THEN Append(where_clauses, clause.sql)
                                 ELSE where_clauses,
                                 clause.params)

\* the WHERE and ORDER BY of both queries
WhereAndOrder(where_clauses) ==
    (IF Len(where_clauses) > 0 THEN <<" WHERE ">> \o Join(where_clauses, " AND ") ELSE <<>>)
        \o <<" ORDER BY runs.number">>

\* the select list of fetch and its selected_columns
RECURSIVE SelectList(_)
SelectList_AllEntries(entries) ==
    IF Len(entries) = 0 THEN <<>>
    ELSE <<", ", Head(entries).alias, ".", column_name(Head(entries).meta.value_type)>>
             \o SelectList(Tail(entries))

SelectList(entries) ==
    IF Len(entries) = 0 THEN <<>>
    ELSE (IF Head(entries).select
          THEN <<", ", Head(entries).alias, ".", column_name(Head(entries).meta.value_type)>>
          ELSE <<>>) \o SelectList(Tail(entries))

RECURSIVE SelectedColumns(_)
SelectedColumns(entries) ==
    IF Len(entries) = 0 THEN <<>>
    ELSE (IF Head(entries).select
          THEN <<[name |-> Head(entries).name, value_type |-> Head(entries).meta.value_type]>>
          ELSE <<>>) \o SelectedColumns(Tail(entries))

\* what the database answers for one run: result column i holds, for the i-th item
\* `alias.column` of the select list, that column of the row of `conditions` whose
\* condition_type_id is the one the LEFT JOIN of the alias names
ResultColumn(sql, i) ==
    LET from  == CHOOSE p \in DOMAIN sql : sql[p] = " FROM runs "
        items == Ascending({p \in 1..from : sql[p] = ", "})
        alias == sql[items[i] + 1]
        join  == CHOOSE p \in DOMAIN sql :
                     sql[p] = "LEFT JOIN conditions AS " /\ sql[p + 1] = alias
    IN  [condition_type_id |-> sql[join + 7], column |-> sql[items[i] + 3]]

\* the loop over selected_columns for one row: the value of each name, read as its
\* value type; a later column of the same name replaces an earlier one
DecodeRow(sql, selected_columns) ==
    [name \in {selected_columns[i].name : i \in DOMAIN selected_columns} |->
        LET i == Max({j \in DOMAIN selected_columns : selected_columns[j].name = name})
        IN  [value_type |-> selected_columns[i].value_type, cell |-> ResultColumn(sql, i)]]

EmptyRuns(selection) == selection.selection = "Runs" /\ Len(selection.runs) = 0

\* RCDB::fetch(condition_names, context), with the set predicate_refs iterated in `order`
RCDB_fetch(condition_types, condition_names, context, order) ==
    LET requested == Requested(condition_names)
        selected  == EnsureEntries(condition_types, requested, TRUE, <<>>)
        entries   == EnsureEntries(condition_types, order, FALSE, selected.value)
        chosen    == SelectionClause(context.selection)
        where     == CompileFilters(context.filters, AliasLookup(entries.value),
                                    chosen.where_clauses, chosen.params)
        sql       == <<"SELECT runs.number">> \o SelectList(entries.value) \o <<" FROM runs ">>
                         \o JoinClauses(entries.value) \o WhereAndOrder(where.where_clauses)
    IN  IF Len(requested) = 0 THEN Err(EmptyConditionList)
        ELSE IF EmptyRuns(context.selection) THEN Ok([empty |-> TRUE])
        ELSE IF selected.kind = "err" THEN selected
        ELSE IF entries.kind = "err" THEN entries
        ELSE IF where.kind = "err" THEN Err(where.err)
        ELSE Ok([empty |-> FALSE, sql |-> sql, params |-> where.params,
                 entries |-> entries.value,
                 selected_columns |-> SelectedColumns(entries.value),
                 row |-> DecodeRow(sql, SelectedColumns(entries.value))])

\* RCDB::fetch_runs(context), with the set predicate_refs iterated in `order`
RCDB_fetch_runs(condition_types, context, order) ==
    LET entries == EnsureEntries(condition_types, order, FALSE, <<>>)
        chosen  == SelectionClause(context.selection)
        where   == CompileFilters(context.filters, AliasLookup(entries.value),
                                  chosen.where_clauses, chosen.params)
    IN  IF EmptyRuns(context.selection) THEN Ok([empty |-> TRUE])
        ELSE IF entries.kind = "err" THEN entries
        ELSE IF where.kind = "err" THEN Err(where.err)
        ELSE Ok([empty |-> FALSE,
                 sql |-> <<"SELECT DISTINCT runs.number FROM runs ">>
                             \o JoinClauses(entries.value) \o WhereAndOrder(where.where_clauses),
                 params |-> where.params, entries |-> entries.value])

MaxNames == 3

\* the condition types of the database: x is 1, y is 2, z is 3, each of one of two types
\* or, for y, not in the schema
ConditionTypesOf(tx, ty) ==
    [x |-> Some([id |-> 1, value_type |-> tx]),
     y |-> IF ty = "unknown" THEN None ELSE Some([id |-> 2, value_type |-> ty]),
     z |-> Some([id |-> 3, value_type |-> "Bool"])]

SelectionSamples ==
    <<[selection |-> "All"], [selection |-> "Range", start |-> 7, end |-> 8],
      [selection |-> "Runs", runs |-> <<>>], [selection |-> "Runs", runs |-> <<8, 7>>]>>

\* the filter lists of the contexts
FilterSamples ==
    <<<<>>,
      <<True>>,
      <<Builder("x", [op |-> "IntEquals", v |-> 5])>>,
      <<any(<<Builder("x", [op |-> "IntEquals", v |-> 1]), Builder("x", [op |-> "IntEquals", v |-> 2])>>)>>,
      <<Builder("y", [op |-> "StringIn", v |-> <<<<"a">>, <<"?">>>>])>>,
      <<not(Builder("z", [op |-> "Bool", v |-> TRUE]))>>,
      <<Builder("x", [op |-> "IntLt", v |-> 5]), Builder("y", [op |-> "StringIn", v |-> <<>>])>>,
      <<all(<<>>), Builder("y", [op |-> "StringContains", v |-> <<"?">>]),
        Builder("x", [op |-> "FloatGt", v |-> "2.5"])>>,
      <<all(<<Builder("z", [op |-> "Exists", v |-> FALSE]),
              Builder("y", [op |-> "StringNotEquals", v |-> <<"a">>]),
              not(Builder("z", [op |-> "Bool", v |-> TRUE]))>>),
        Builder("x", [op |-> "TimeLe", v |-> SampleTime])>>,
      <<Builder("z", [op |-> "Bool", v |-> FALSE]),
        any(<<Builder("y", [op |-> "StringEquals", v |-> <<"a">>]),
              not(Builder("x", [op |-> "IntNotEquals", v |-> 5]))>>)>>>>

QueryInit ==
    /\ \E tx \in {"Int", "String", "Float", "Time"}, ty \in {"String", "unknown"},
          s \in DOMAIN SelectionSamples, f \in DOMAIN FilterSamples :
          \/ \E n \in 0..MaxNames : \E names \in [1..n -> ConditionNames] :
                call_args = [op |-> "fetch", condition_types |-> ConditionTypesOf(tx, ty),
                             condition_names |-> names,
                             context |-> [selection |-> SelectionSamples[s],
                                          filters |-> FilterSamples[f]]]
          \/ call_args = [op |-> "fetch_runs", condition_types |-> ConditionTypesOf(tx, ty),
                          condition_names |-> <<>>,
                          context |-> [selection |-> SelectionSamples[s],
                                       filters |-> FilterSamples[f]]]
    /\ call_result = NoResult
    /\ HandlesIdle

\* db.fetch(condition_names, context)
RcdbFetch ==
    /\ call_args.op = "fetch"
    /\ call_result = NoResult
    /\ \E order \in Orders(PredicateRefs(call_args.context.filters)) :
          call_result' = RCDB_fetch(call_args.condition_types, call_args.condition_names,
                                    call_args.context, order)
    /\ UNCHANGED <<call_args, dbVars, cloneVars, queryVars, cacheVars, callVars, dataVars, dirVars>>

\* db.fetch_runs(context)
RcdbFetchRuns ==
    /\ call_args.op = "fetch_runs"
    /\ call_result = NoResult
    /\ \E order \in Orders(PredicateRefs(call_args.context.filters)) :
          call_result' = RCDB_fetch_runs(call_args.condition_types, call_args.context, order)
    /\ UNCHANGED <<call_args, dbVars, cloneVars, queryVars, cacheVars, callVars, dataVars, dirVars>>

QueryNext == RcdbFetch \/ RcdbFetchRuns

QuerySpec == QueryInit /\ [][QueryNext]_vars

\* the places of the '?' in a statement, in text order
Placeholders(sql) == Ascending({p \in DOMAIN sql : sql[p] = "?"})

\* the kind of value the column named by a piece of SQL holds, "none" for other pieces
ColumnKind(piece) ==
    CASE piece \in {"runs.number BETWEEN ", "runs.number IN (", "int_value"} -> "Integer"
      [] piece = "float_value" -> "Real"
      [] piece \in {"text_value", ".text_value IN (", ".text_value, ", ".time_value "} -> "Text"
      [] OTHER -> "none"

\* the column the placeholder at place p is compared with
ColumnOf(sql, p) == sql[Max({q \in 1..p : ColumnKind(sql[q]) # "none"})]

\* the values a filter that compiles hands over, left to right
RECURSIVE ValuesOf(_)
ValuesOf(expr) ==
    CASE expr.node = "True" -> <<>>
      [] expr.node = "Not" -> ValuesOf(expr.inner)
      [] expr.node = "Group" ->
             IF Len(expr.clauses) = 0 THEN <<>>
             ELSE ValuesOf(Head(expr.clauses)) \o ValuesOf(Group(expr.kind, Tail(expr.clauses)))
      [] expr.node = "Comparison" ->
             CASE expr.operator.op \in {"Bool", "Exists"} -> <<>>
               [] expr.operator.op = "StringIn" ->
                      [i \in DOMAIN expr.operator.v |-> Text(expr.operator.v[i])]
               [] DeclaredType(expr.operator.op) = "Int" -> <<Integer(expr.operator.v)>>
               [] DeclaredType(expr.operator.op) = "Float" -> <<Real(expr.operator.v)>>
               [] DeclaredType(expr.operator.op) = "Time" ->
                      <<Text(<<"2", "0", "1", "9", "-", "0", "2", "-", "0", "5", " ",
                               "1", "0", ":", "3", "0", ":", "0", "0">>)>>
               [] OTHER -> <<Text(expr.operator.v)>>

RECURSIVE ValuesOfAll(_)
ValuesOfAll(filters) ==
    IF Len(filters) = 0 THEN <<>> ELSE ValuesOf(Head(filters)) \o ValuesOfAll(Tail(filters))

\* the run numbers of a selection, in its order
RunValues(selection) ==
    CASE selection.selection = "All" -> <<>>
      [] selection.selection = "Range" -> <<Integer(selection.start), Integer(selection.end)>>
      [] selection.selection = "Runs" -> [i \in DOMAIN selection.runs |-> Integer(selection.runs[i])]

\* what the values of the model would read as if they were written into the SQL text
ValueTexts == {"5", "7", "8", "2.5", "a", "'a'", "'?'", "2019-02-05 10:30:00", "-1", "0"}

Built == call_result.kind = "ok" /\ ~call_result.value.empty

\* C16: in the SQL of fetch and fetch_runs the number of '?' equals the number of bound
\* parameters, the i-th '?' in text order stands for the i-th parameter, every run number
\* and every comparison value is a bound parameter and never SQL text, and boolean,
\* exists, empty-'in' and True nodes bind nothing
C16_ParameterBinding ==
    Built =>
        LET sql    == call_result.value.sql
            params == call_result.value.params
            marks  == Placeholders(sql)
        IN  /\ Len(marks) = Len(params)
            /\ params = RunValues(call_args.context.selection)
                            \o ValuesOfAll(call_args.context.filters)
            /\ \A i \in DOMAIN marks :
                  i <= Len(params) => ColumnKind(ColumnOf(sql, marks[i])) = params[i].type
            /\ \A p \in DOMAIN sql : sql[p] \notin ValueTexts

\* C16 witness: a range of runs, then a negated boolean and a group of a string and an
\* int comparison: four placeholders for the four values, in order
C16_Witness ==
    /\ call_args.op = "fetch_runs"
    /\ call_args.context = [selection |-> SelectionSamples[2], filters |-> FilterSamples[10]]
    /\ Built
    /\ call_result.value.params = <<Integer(7), Integer(8), Text(<<"a">>), Integer(5)>>
    /\ Len(Placeholders(call_result.value.sql)) = 4

\* the names a call refers to
ReferencedNames ==
    (IF call_args.op = "fetch" THEN Range(call_args.condition_names) ELSE {})
        \cup PredicateRefs(call_args.context.filters)

\* the places of the LEFT JOINs of a statement
JoinPlaces(sql) == {p \in DOMAIN sql : sql[p] = "LEFT JOIN conditions AS "}

\* the WHERE clause of a statement, without the run selection
RECURSIVE ExpectedClauses(_, _)
ExpectedClauses(filters, alias_lookup) ==
    IF Len(filters) = 0 THEN <<>>
    ELSE LET sql == to_sql(Head(filters), alias_lookup, <<>>).sql
         IN  (IF sql = <<"1 = 1">> THEN <<>> ELSE <<sql>>)
                 \o ExpectedClauses(Tail(filters), alias_lookup)

\* C19: every distinct name of the query, requested or used in a filter, has exactly one
\* alias cond_<i>, the i being 0..k-1 for k names; the SQL has exactly one LEFT JOIN per
\* alias; the select list and the compiled predicates use the alias of each name
C19_AliasAllocation ==
    Built =>
        LET sql     == call_result.value.sql
            entries == call_result.value.entries
            k       == Cardinality(ReferencedNames)
            aliasOf == [name \in ReferencedNames |->
                          Some([alias |-> (CHOOSE e \in Range(entries) : e.name = name).alias,
                                value_type |-> call_args.condition_types[name].value.value_type])]
            aliases == [name \in ConditionNames |->
                          IF name \in ReferencedNames THEN aliasOf[name] ELSE None]
        IN  /\ Len(entries) = k
            /\ {entries[i].name : i \in DOMAIN entries} = ReferencedNames
            /\ {entries[i].alias : i \in DOMAIN entries} = {"cond_" \o DecimalString(i) : i \in 0..(k - 1)}
            /\ Cardinality(JoinPlaces(sql)) = k
            /\ \A i \in DOMAIN entries :
                  \E p \in JoinPlaces(sql) :
                     /\ sql[p + 1] = entries[i].alias
                     /\ sql[p + 7] = DecimalString(call_args.condition_types[entries[i].name].value.id)
            /\ call_args.op = "fetch" =>
                  \A i \in DOMAIN call_result.value.selected_columns :
                     \E p \in DOMAIN sql :
                        /\ sql[p] = ", "
                        /\ sql[p + 1] = aliasOf[call_result.value.selected_columns[i].name].value.alias
            /\ \E p \in DOMAIN sql :
                  SubSeq(sql, p, Len(sql)) =
                      WhereAndOrder(SelectionClause(call_args.context.selection).where_clauses
                                        \o ExpectedClauses(call_args.context.filters, aliases))

\* C19 witness: any([int_cond("x").eq(1), int_cond("x").eq(2)]) compiles against the
\* single alias cond_0
C19_Witness ==
    /\ call_args.op = "fetch_runs"
    /\ call_args.context = [selection |-> SelectionSamples[1], filters |-> FilterSamples[4]]
    /\ Built
    /\ FlatText(call_result.value.sql) =
           "SELECT DISTINCT runs.number FROM runs LEFT JOIN conditions AS cond_0 ON cond_0.run_number = runs.number AND cond_0.condition_type_id = 1  WHERE (cond_0.int_value = ? OR cond_0.int_value = ?) ORDER BY runs.number"

\* C19 witness of three names, one requested and filtered, two only filtered
C19_WitnessThree ==
    /\ call_args.op = "fetch"
    /\ call_args.condition_names = <<"y">>
    /\ call_args.context.filters = FilterSamples[10]
    /\ Built
    /\ Len(call_result.value.entries) = 3
    /\ call_result.value.entries[2].name = "x"

\* the names of a list, each once, at the place of its first occurrence
KeepFirst(names) ==
    LET first == Ascending({i \in DOMAIN names : \A j \in 1..(i - 1) : names[j] # names[i]})
    IN  [k \in DOMAIN first |-> names[first[k]]]

\* C20: fetch deduplicates the requested names keeping the first occurrence and the
\* order, fails with EmptyConditionList for no name, selects runs.number and then one
\* column per requested name in that order, joins but does not select the conditions only
\* the filters use, and so decodes result column i+1 with the value type of the i-th
\* requested name and stores it under that name
C20_SelectedColumns ==
    (call_args.op = "fetch" /\ call_result # NoResult) =>
        LET requested == KeepFirst(call_args.condition_names)
            type(name) == call_args.condition_types[name].value
        IN  /\ Len(requested) = 0 <=> call_result = Err(EmptyConditionList)
            /\ Built =>
                  LET sql   == call_result.value.sql
                      from  == CHOOSE p \in DOMAIN sql : sql[p] = " FROM runs "
                      items == Ascending({p \in 1..from : sql[p] = ", "})
                  IN  /\ sql[1] = "SELECT runs.number"
                      /\ from = 2 + 4 * Len(requested)
                      /\ Len(items) = Len(requested)
                      /\ \A i \in DOMAIN requested :
                            /\ ResultColumn(sql, i) =
                                   [condition_type_id |-> DecimalString(type(requested[i]).id),
                                    column |-> column_name(type(requested[i]).value_type)]
                            /\ call_result.value.selected_columns[i] =
                                   [name |-> requested[i],
                                    value_type |-> type(requested[i]).value_type]
                            /\ call_result.value.row[requested[i]] =
                                   [value_type |-> type(requested[i]).value_type,
                                    cell |-> ResultColumn(sql, i)]
                      /\ DOMAIN call_result.value.row = Range(requested)

\* C20 witness: y, x, y requested and x and z filtered: y then x are selected, z is
\* joined only
C20_Witness ==
    /\ call_args.op = "fetch"
    /\ call_args.condition_names = <<"y", "x", "y">>
    /\ call_args.context = [selection |-> SelectionSamples[4], filters |-> FilterSamples[9]]
    /\ Built
    /\ FlatText(SubSeq(call_result.value.sql, 1, 10)) =
           "SELECT runs.number, cond_0.text_value, cond_1.time_value FROM runs "
    /\ Len(call_result.value.entries) = 3

\* C20 witness of the empty list
C20_WitnessEmpty ==
    /\ call_args.op = "fetch"
    /\ call_args.condition_names = <<>>
    /\ call_args.context.selection = SelectionSamples[3]
    /\ call_result = Err(EmptyConditionList)

----------------------------------------------------------------------------
(* CCDB::dir on paths of one normal form: database.rs *)

\* two results of dir name the same directory, or both are failures
SameDirectory(a, b) == IF a.kind = "ok" THEN a = b ELSE b.kind = "err"

\* C30: dir depends on the normalized path only: two paths with the same
\* normalize_path("/", p) give the same directory or both fail, and every path that
\* normalizes to "/" gives the root directory
C30_DirOfNormalizedPath ==
    (Opened /\ lookup # NoResult /\ lookup.op = "dir") =>
        /\ \A q \in UserPaths :
              normalize_path(<<"/">>, q) = normalize_path(<<"/">>, lookup.path) =>
                  SameDirectory(lookup.result, CCDB_dir(q))
        /\ normalize_path(<<"/">>, lookup.path) = <<"/">> => lookup.result = Ok(RootMeta)

\* what holds of C30: the paths that do not normalize to "/"
DirOfNormalizedPathBelowRoot ==
    (Opened /\ lookup # NoResult /\ lookup.op = "dir"
        /\ normalize_path(<<"/">>, lookup.path) # <<"/">>) =>
        \A q \in UserPaths :
            normalize_path(<<"/">>, q) = normalize_path(<<"/">>, lookup.path) =>
                SameDirectory(lookup.result, CCDB_dir(q))

----------------------------------------------------------------------------
(* Accessors of a decoded Data: data.rs *)

\* Column::row(row): v[row], which panics when row is not an index of v
Column_row(column, row) == IF row >= Len(column) THEN Panic ELSE column[row + 1]

\* Value::as_int, as_uint, ..., as_bool: the value when it is of the variant asked for
Value_as(value, t) == IF value.type = t THEN Some(value) ELSE None

\* Data::column_by_index(idx)
column_by_index(data, idx) ==
    IF idx < Len(data.columns) THEN Some(data.columns[idx + 1]) ELSE None

\* Data::column_by_name(name)
column_by_name(data, name) ==
    IF name \in DOMAIN data.column_indices
    THEN column_by_index(data, data.column_indices[name])
    ELSE None

\* Data::get_named_int(name, row), ..., get_named_bool(name, row)
get_named(data, name, row, t) ==
    LET column == column_by_name(data, name)
    IN  IF ~column.some THEN None
        ELSE IF Column_row(column.value, row) = Panic THEN Panic
        ELSE Value_as(Column_row(column.value, row), t)

\* Data::get_int(column, row), ..., get_bool(column, row)
get_typed(data, column, row, t) ==
    LET value == DataValue(data, row, column)
    IN  IF ~value.some THEN None ELSE Value_as(value.value, t)

RowOutOfBounds(requested, nrows) ==
    [kind |-> "RowOutOfBounds", requested |-> requested, nrows |-> nrows]

\* Data::row(row): the (name, value) pairs of the row
Data_row(data, row) ==
    IF row >= data.nrows THEN Err(RowOutOfBounds(row, data.nrows))
    ELSE Ok([i \in 1..Min({Len(data.column_names), Len(data.columns)}) |->
                <<data.column_names[i], Column_row(data.columns[i], row)>>])

\* the column names asked for: the named column, the numbered ones, and one no table has
AccessNames == {"a", "0", "1", "none"}

\* one call of every accessor on the decoded Data, with the same row, column and name
Access ==
    /\ dv_result.kind = "ok"
    /\ call_result = NoResult
    /\ \E row \in 0..(MaxRows + 1), column \in 0..(MaxCols + 1), name \in AccessNames :
          /\ call_args' = [row |-> row, column |-> column, name |-> name]
          /\ call_result' =
                 [kind            |-> "accessed",
                  value           |-> DataValue(dv_result.value, row, column),
                  get             |-> [t \in ColumnType |-> get_typed(dv_result.value, column, row, t)],
                  get_named       |-> [t \in ColumnType |-> get_named(dv_result.value, name, row, t)],
                  column_by_index |-> column_by_index(dv_result.value, column),
                  column_by_name  |-> column_by_name(dv_result.value, name),
                  row             |-> Data_row(dv_result.value, row)]
    /\ UNCHANGED <<dataVars, dbVars, cloneVars, queryVars, cacheVars, callVars, dirVars>>

AccessNext == FromVault \/ Access

AccessSpec == DataInit /\ [][AccessNext]_vars

\* the Data has a column of that name
HasColumn(data, name) == \E i \in DOMAIN data.column_names : data.column_names[i] = name

\* C29: the accessors are total: value, get_*, get_named_* give None when the row index
\* is >= nrows or the column does not exist, column_by_index and column_by_name give
\* None when the column does not exist, row(i) gives RowOutOfBounds{requested: i, nrows}
\* when i >= nrows, and no accessor panics
C29_AccessorsTotal ==
    call_result.kind = "accessed" =>
        LET data == dv_result.value
            row  == call_args.row
        IN  /\ (row >= data.nrows \/ call_args.column >= data.ncolumns) =>
                  /\ call_result.value = None
                  /\ \A t \in ColumnType : call_result.get[t] = None
            /\ (row >= data.nrows \/ ~HasColumn(data, call_args.name)) =>
                  \A t \in ColumnType : call_result.get_named[t] = None
            /\ call_args.column >= data.ncolumns => call_result.column_by_index = None
            /\ ~HasColumn(data, call_args.name) => call_result.column_by_name = None
            /\ row >= data.nrows => call_result.row = Err(RowOutOfBounds(row, data.nrows))
            /\ \A t \in ColumnType : call_result.get_named[t] # Panic

\* what holds of C29: the accessors by column index, the column lookups and row(i), and
\* the accessors by name for the rows of the Data
AccessorsByIndexTotal ==
    call_result.kind = "accessed" =>
        LET data == dv_result.value
            row  == call_args.row
        IN  /\ (row >= data.nrows \/ call_args.column >= data.ncolumns) =>
                  /\ call_result.value = None
                  /\ \A t \in ColumnType : call_result.get[t] = None
            /\ ~HasColumn(data, call_args.name) =>
                  /\ call_result.column_by_name = None
                  /\ \A t \in ColumnType : call_result.get_named[t] = None
            /\ call_args.column >= data.ncolumns => call_result.column_by_index = None
            /\ row >= data.nrows => call_result.row = Err(RowOutOfBounds(row, data.nrows))
            /\ row < data.nrows => \A t \in ColumnType : call_result.get_named[t] # Panic

----------------------------------------------------------------------------
(* The parent walk of variation_chain over any variations table: database.rs *)

\* every parent_id column the table can hold: a root, a row of the table (itself
\* included), or an id with no row; nothing in the walk asks for an acyclic table
AnyVariationTables ==
    {[id \in VariationIds |-> VariationMeta(id, parents[id])] :
        parents \in [VariationIds -> 0..(NVar + 1)]}

\* the walk is followed for this many rows of `chain` and no further
MaxLookups == 4

ChainInit ==
    /\ variations \in AnyVariationTables
    /\ assignments = [id \in 1..NAsg |-> AssignmentRow(id, 1, 0, MaxRun)]
    /\ vaults = [id \in 1..NAsg |-> GoodVault(id)]
    /\ variation_cache = EmptyMap
    /\ variation_chain_cache = EmptyMap
    /\ CallIdle
    /\ DataIdle
    /\ DirIdle
    /\ PureIdle

\* one iteration of the loop, while the model still follows the walk
ChainWalk ==
    /\ Len(chain) <= MaxLookups
    /\ ChainStep

ChainNext ==
    \/ \E c \in Contexts : FetchStart(c)
    \/ ChainWalk
    \/ ChainEnd
    \/ Resolve
    \/ Return

ChainSpec == ChainInit /\ [][ChainNext]_vars

\* no parent_id link of the table lies on a cycle
Acyclic ==
    \A id \in DOMAIN variations :
        ReachesRoot([i \in DOMAIN variations |-> variations[i].parent_id], id,
                    Cardinality(DOMAIN variations))

NoIdTwice(c) == \A i, j \in DOMAIN c : c[i].id = c[j].id => i = j

\* the queries `WHERE id = ?` the walk has run: one for each row it appended, and the
\* one that found no row when the loop left through `break`
ParentLookups ==
    (Len(chain) - 1)
    + (IF pc = "resolve" /\ chain[Len(chain)].parent_id > 0 THEN 1 ELSE 0)

C27_WitnessCycle ==
    /\ pc = "chain"
    /\ ~Acyclic
    /\ Len(chain) > NVar

----------------------------------------------------------------------------
(* The lazy caches of a CCDB handle: database.rs *)

\* every entry of map m is an entry of map n, with the same value
Keeps(m, n) == \A k \in DOMAIN m : k \in DOMAIN n /\ n[k] = m[k]

\* a step in which fetch answers variation(name) and enters variation_chain
StartsCall == pc = "idle" /\ pc' \in {"chain", "resolve"}

\* C24: no step of a call on the handle or on a clone of it removes an entry of the
\* variation cache or of the variation-chain cache or gives it another value; a call
\* that finds the name in the variation cache goes on with the cached record, and
\* one that finds the id in the chain cache gets the cached chain and walks no parent
C24_CachesNeverInvalidated ==
    [][/\ Keeps(variation_cache, variation_cache')
       /\ Keeps(variation_chain_cache, variation_chain_cache')
       /\ (StartsCall /\ ctx'.variation \in DOMAIN variation_cache) =>
              chain'[1] = variation_cache[ctx'.variation]
       /\ (StartsCall /\ chain'[1].id \in DOMAIN variation_chain_cache) =>
              /\ pc' = "resolve"
              /\ chain' = variation_chain_cache[chain'[1].id]]_vars

\* a call served from both caches while the caches hold other entries as well
C24_Witness ==
    /\ pc = "resolve"
    /\ current = NoVariation
    /\ Len(chain) >= 2
    /\ ctx.variation \in DOMAIN variation_cache
    /\ Cardinality(DOMAIN variation_cache) >= 2
    /\ Cardinality(DOMAIN variation_chain_cache) >= 2

\* once open has returned, no lookup changes a directory or table map
DirectoryMapsKept ==
    [][open_pc = "open" =>
          UNCHANGED <<directory_meta, directory_by_path, table_meta, table_by_dir_name>>]_vars

----------------------------------------------------------------------------
(* Two calls with the same arguments: RCDB fetch and fetch_runs *)

\* what a call with the arguments of call_args returns when the HashSet predicate_refs
\* yields the names in this order
CallWithOrder(order) ==
    IF call_args.op = "fetch"
    THEN RCDB_fetch(call_args.condition_types, call_args.condition_names,
                    call_args.context, order)
    ELSE RCDB_fetch_runs(call_args.condition_types, call_args.context, order)

\* the names of the filters that ensure_query_entry sees for the first time in the loop
\* over predicate_refs
FilterOnlyNames ==
    PredicateRefs(call_args.context.filters)
        \ (IF call_args.op = "fetch" THEN Range(call_args.condition_names) ELSE {})

\* C28 as stated: any other call of fetch, or of fetch_runs, with the same handle, names
\* and Context returns what this call returned: the same alias for each name, the
\* same SQL text and the same parameter list
C28_StableAliases ==
    call_result # NoResult =>
        \A order \in Orders(PredicateRefs(call_args.context.filters)) :
            CallWithOrder(order) = call_result

\* two calls agree when at most one name is referenced by the filters only, and they
\* bind the same parameter list in every case
StableAliasesOfRequestedNames ==
    call_result # NoResult =>
        \A order \in Orders(PredicateRefs(call_args.context.filters)) :
            LET other == CallWithOrder(order)
            IN  /\ Cardinality(FilterOnlyNames) <= 1 => other = call_result
                /\ other.kind = call_result.kind
                /\ Built => other.value.params = call_result.value.params

----------------------------------------------------------------------------
(* load_vaults on a handle and a clone of it: the shared scratch table *)

\* the handle and one clone; both hold the same Arc<Connection>, whose TEMP table
\* ccdb_rs_query_constant_ids they share
Clones == {"handle", "clone"}

MaxCloneRun == 1

\* the assignments a call has resolved: some runs, each with its constant set
AssignedMaps ==
    UNION {{[run \in S |-> AssignmentRow(f[run], 1, 0, MaxRun)] : f \in [S -> 1..NAsg]} :
              S \in SUBSET (0..MaxCloneRun)}

ConstantSetIds(assigned) == {assigned[run].constant_set_id : run \in DOMAIN assigned}

NoCall == [pc |-> "idle", assigned |-> EmptyMap, loaded |-> {}, result |-> NoResult]

CloneInit ==
    /\ vaults \in VaultTables
    /\ variations = EmptyMap
    /\ assignments = EmptyMap
    /\ variation_cache = EmptyMap
    /\ variation_chain_cache = EmptyMap
    /\ scratch_ids = {}
    /\ clone_calls = [c \in Clones |-> NoCall]
    /\ QueryIdle
    /\ pc = "idle"
    /\ ctx = IdleContext
    /\ chain = <<>>
    /\ current = NoVariation
    /\ resolved = EmptyMap
    /\ result = NoResult
    /\ DataIdle
    /\ DirIdle
    /\ PureIdle

CloneUnchanged == UNCHANGED <<dbVars, cacheVars, callVars, dataVars, dirVars, pureVars, queryVars>>

LoadVaultsStart_Interleaved(c, assigned) ==
    /\ clone_calls[c].pc \in {"idle", "done"}
    /\ clone_calls' =
           [clone_calls EXCEPT ![c] =
               IF DOMAIN assigned = {}
               THEN [pc |-> "done", assigned |-> assigned, loaded |-> {}, result |-> Ok(EmptyMap)]
               ELSE [pc |-> "delete", assigned |-> assigned, loaded |-> {}, result |-> NoResult]]
    /\ UNCHANGED scratch_ids
    /\ CloneUnchanged

\* a clone enters load_vaults. CCDB holds an Arc<rusqlite::Connection>, which is neither
\* Send nor Sync, so the handle and its clones stay on the thread that opened the
\* database, and the calls are blocking: a call starts when no other call is running
LoadVaultsStart(c, assigned) ==
    /\ \A d \in Clones : clone_calls[d].pc \in {"idle", "done"}
    /\ clone_calls' =
           [clone_calls EXCEPT ![c] =
               IF DOMAIN assigned = {}
               THEN [pc |-> "done", assigned |-> assigned, loaded |-> {}, result |-> Ok(EmptyMap)]
               ELSE [pc |-> "delete", assigned |-> assigned, loaded |-> {}, result |-> NoResult]]
    /\ UNCHANGED scratch_ids
    /\ CloneUnchanged

\* DELETE FROM ccdb_rs_query_constant_ids
ScratchDelete(c) ==
    /\ clone_calls[c].pc = "delete"
    /\ scratch_ids' = {}
    /\ clone_calls' = [clone_calls EXCEPT ![c].pc = "insert"]
    /\ CloneUnchanged

\* the transaction of INSERTs: an id the table already holds violates its PRIMARY KEY,
\* the error leaves the function and the dropped transaction rolls back
ScratchInsert(c) ==
    /\ clone_calls[c].pc = "insert"
    /\ LET ids == ConstantSetIds(clone_calls[c].assigned)
       IN  IF ids \cap scratch_ids # {}
           THEN /\ clone_calls' = [clone_calls EXCEPT ![c].pc = "done",
                                                       ![c].result = Err([kind |-> "SqliteError"])]
                /\ UNCHANGED scratch_ids
           ELSE /\ scratch_ids' = scratch_ids \cup ids
                /\ clone_calls' = [clone_calls EXCEPT ![c].pc = "join"]
    /\ CloneUnchanged

\* constantSets JOIN ccdb_rs_query_constant_ids, then the decoding of the vaults of
\* the runs whose constant set came back
ScratchJoin(c) ==
    /\ clone_calls[c].pc = "join"
    /\ LET assigned == clone_calls[c].assigned
           cs_map   == [id \in scratch_ids \cap DOMAIN vaults |-> vaults[id]]
           found    == {run \in DOMAIN assigned : assigned[run].constant_set_id \in DOMAIN cs_map}
       IN  clone_calls' =
               [clone_calls EXCEPT
                   ![c].pc = "done",
                   ![c].loaded = DOMAIN cs_map,
                   ![c].result = DecodeAll([run \in found |->
                                     from_vault(cs_map[assigned[run].constant_set_id],
                                                SortByOrder(TableColumns), TableRows)])]
    /\ UNCHANGED scratch_ids
    /\ CloneUnchanged

CloneNext ==
    \/ \E c \in Clones, assigned \in AssignedMaps : LoadVaultsStart(c, assigned)
    \/ \E c \in Clones : ScratchDelete(c)
    \/ \E c \in Clones : ScratchInsert(c)
    \/ \E c \in Clones : ScratchJoin(c)

CloneSpec == CloneInit /\ [][CloneNext]_vars

----------------------------------------------------------------------------
(* RCDB fetch and fetch_runs against a database: database.rs *)

\* a cell of the model: for one run and one condition type, no row of `conditions`, or
\* the row with its value in the column of the value type of the condition (None is NULL)
Absent == [row |-> FALSE]

Stored(v) == [row |-> TRUE, value |-> v]

\* two stored values of every value type the databases of the model use; the second
\* time text is one that the timestamp parser rejects
ValueA(value_type) ==
    CASE value_type = "Int" -> 5
      [] value_type = "Bool" -> 1
      [] value_type = "Time" -> format_time(SampleTime)
      [] OTHER -> <<"a">>

ValueB(value_type) ==
    CASE value_type = "Int" -> 1
      [] value_type = "Bool" -> 0
      [] value_type = "Time" -> <<"x">>
      [] OTHER -> <<"?">>

CellKinds == {"absent", "null", "a", "b"}

CellOf(kind, value_type) ==
    CASE kind = "absent" -> Absent
      [] kind = "null" -> Stored(None)
      [] kind = "a" -> Stored(Some(ValueA(value_type)))
      [] kind = "b" -> Stored(Some(ValueB(value_type)))

\* table `runs` holds 7, 8 and 9; run 9 has no condition
RunsTable == {7, 8, 9}

\* the database whose cells of x for the runs 7 and 8 and of y for run 7 are of the
\* given kinds; y of run 8 and z of run 7 are stored values
DatabaseOf(condition_types, x7, x8, y7) ==
    LET type(name) == IF condition_types[name].some
                      THEN condition_types[name].value.value_type ELSE "String"
    IN  [runs |-> RunsTable,
         conditions |->
             [key \in RunsTable \X {1, 2, 3} |->
                 CASE key = <<7, 1>> -> CellOf(x7, type("x"))
                   [] key = <<8, 1>> -> CellOf(x8, type("x"))
                   [] key = <<7, 2>> -> CellOf(y7, type("y"))
                   [] key = <<8, 2>> -> CellOf("b", type("y"))
                   [] key = <<7, 3>> -> CellOf("a", "Bool")
                   [] OTHER -> Absent]]

\* the column `alias.column` of a row of the LEFT JOINs for one run: the value of the
\* row of `conditions` with the run number and the condition_type_id of the alias, and
\* NULL when there is no such row
JoinedColumn(db, run, entries, alias) ==
    LET entry == entries[CHOOSE i \in DOMAIN entries : entries[i].alias = alias]
        cell  == db.conditions[<<run, entry.meta.id>>]
    IN  IF cell.row THEN cell.value ELSE None

\* SQL's three truth values
SqlBool(b) == IF b THEN "T" ELSE "F"

SqlNot(t) == CASE t = "T" -> "F" [] t = "F" -> "T" [] OTHER -> "U"

SqlAnd(ts) == IF "F" \in ts THEN "F" ELSE IF "U" \in ts THEN "U" ELSE "T"

SqlOr(ts) == IF "T" \in ts THEN "T" ELSE IF "U" \in ts THEN "U" ELSE "F"

Contains(text, part) ==
    \E i \in 1..(Len(text) - Len(part) + 1) : SubSeq(text, i, i + Len(part) - 1) = part

\* the value of the fragment Comparison::to_sql emits, on a row where the column of the
\* alias holds `column`
EvalComparison(cmp, column) ==
    LET op == cmp.operator.op
        v  == cmp.operator.v
    IN  CASE op = "Exists" -> SqlBool(column.some)
          [] op = "StringIn" /\ Len(v) = 0 -> "F"
          [] ~column.some -> "U"
          [] op = "Bool" -> SqlBool(column.value = (IF v THEN 1 ELSE 0))
          [] op \in {"IntEquals", "StringEquals"} -> SqlBool(column.value = v)
          [] op \in {"IntNotEquals", "StringNotEquals"} -> SqlBool(column.value # v)
          [] op = "IntGt" -> SqlBool(column.value > v)
          [] op = "IntGe" -> SqlBool(column.value >= v)
          [] op = "IntLt" -> SqlBool(column.value < v)
          [] op = "IntLe" -> SqlBool(column.value <= v)
          [] op = "StringIn" -> SqlBool(column.value \in Range(v))
          [] op = "StringContains" -> SqlBool(Contains(column.value, v))

\* the value of the fragment Expr::to_sql emits for expr
RECURSIVE EvalExpr(_, _, _, _)
EvalExpr(expr, db, run, entries) ==
    CASE expr.node = "True" -> "T"
      [] expr.node = "Comparison" ->
             EvalComparison(expr, JoinedColumn(db, run, entries,
                                               AliasLookup(entries)[expr.field].value.alias))
      [] expr.node = "Group" ->
             LET ts == {EvalExpr(expr.clauses[i], db, run, entries) : i \in DOMAIN expr.clauses}
             IN  IF expr.kind = "And" THEN SqlAnd(ts) ELSE SqlOr(ts)
      [] expr.node = "Not" -> SqlNot(EvalExpr(expr.inner, db, run, entries))

Selects_RangeExclusive(selection, run) ==
    CASE selection.selection = "All" -> TRUE
      [] selection.selection = "Range" -> selection.start <= run /\ run < selection.end
      [] selection.selection = "Runs" -> run \in Range(selection.runs)

\* the clause of the run selection: none, BETWEEN ? AND ?, or IN (?, ...)
Selects(selection, run) ==
    CASE selection.selection = "All" -> TRUE
      [] selection.selection = "Range" -> selection.start <= run /\ run <= selection.end
      [] selection.selection = "Runs" -> run \in Range(selection.runs)

\* the run numbers of the rows either statement yields, in the order of ORDER BY: the
\* runs whose row of the LEFT JOINs satisfies every clause of the WHERE
QueryRuns(db, entries, context) ==
    Ascending({run \in db.runs :
                  /\ Selects(context.selection, run)
                  /\ \A i \in DOMAIN context.filters :
                        EvalExpr(context.filters[i], db, run, entries) = "T"})

\* gluex_core::parsers::parse_timestamp on a stored time text
DecodeTime(raw) == parse_timestamp(raw, TRUE)

DecodeValue_NullIsValue(column, value_type) ==
    IF value_type = "Time" /\ column.some
    THEN LET parsed == DecodeTime(column.value)
         IN  IF parsed.kind = "ok"
             THEN Ok(Some([value_type |-> "Time", value |-> parsed.value]))
             ELSE parsed
    ELSE Ok(Some([value_type |-> value_type, value |-> column]))

\* one arm of `match column.value_type`: the Value to insert, nothing for NULL, or the
\* error of the timestamp parser
DecodeValue(column, value_type) ==
    IF ~column.some THEN Ok(None)
    ELSE IF value_type = "Time"
    THEN LET parsed == DecodeTime(column.value)
         IN  IF parsed.kind = "ok"
             THEN Ok(Some([value_type |-> "Time", value |-> parsed.value]))
             ELSE parsed
    ELSE Ok(Some([value_type |-> value_type,
                  value |-> IF value_type = "Bool" THEN column.value # 0 ELSE column.value]))

\* the loop `while let Some(row) = rows.next()?` of fetch: the inner map of every row,
\* or the first error in row order and, within a row, in column order
DecodeRows(db, runs, entries, selected_columns) ==
    LET alias(i)   == (CHOOSE e \in Range(entries) : e.name = selected_columns[i].name).alias
        value(r, i) == DecodeValue(JoinedColumn(db, runs[r], entries, alias(i)),
                                   selected_columns[i].value_type)
        failing    == {<<r, i>> \in (DOMAIN runs) \X (DOMAIN selected_columns) :
                          value(r, i).kind = "err"}
        first      == CHOOSE p \in failing :
                          \A q \in failing : p[1] < q[1] \/ (p[1] = q[1] /\ p[2] <= q[2])
    IN  IF failing # {} THEN value(first[1], first[2])
        ELSE Ok([run \in Range(runs) |->
                    LET r == CHOOSE k \in DOMAIN runs : runs[k] = run
                    IN  [name \in {selected_columns[i].name :
                                      i \in {j \in DOMAIN selected_columns : value(r, j).value.some}} |->
                            value(r, Max({j \in DOMAIN selected_columns :
                                             selected_columns[j].name = name})).value.value]])

\* RCDB::fetch(condition_names, context) on database db
RCDB_fetch_result(db, condition_types, condition_names, context, order) ==
    LET built == RCDB_fetch(condition_types, condition_names, context, order)
    IN  IF built.kind = "err" THEN built
        ELSE IF built.value.empty THEN Ok(EmptyMap)
        ELSE DecodeRows(db, QueryRuns(db, built.value.entries, context),
                        built.value.entries, built.value.selected_columns)

\* RCDB::fetch_runs(context) on database db
RCDB_fetch_runs_result(db, condition_types, context, order) ==
    LET built == RCDB_fetch_runs(condition_types, context, order)
    IN  IF built.kind = "err" THEN built
        ELSE IF built.value.empty THEN Ok(<<>>)
        ELSE Ok(QueryRuns(db, built.value.entries, context))

\* the requested name lists and the filter lists of the calls against a database
RowsNames == {<<>>, <<"x">>, <<"y">>, <<"x", "y">>, <<"z", "x">>, <<"x", "x">>}

RowsFilters == {FilterSamples[i] : i \in {1, 3, 5, 6, 7, 10}}

RowsInit ==
    /\ \E tx \in {"Int", "Time"}, ty \in {"String", "unknown"},
          s \in DOMAIN SelectionSamples, filters \in RowsFilters,
          x7 \in CellKinds, x8 \in CellKinds, y7 \in CellKinds,
          call \in ({"fetch"} \X RowsNames) \cup {<<"fetch_runs", <<>>>>} :
          call_args = [op |-> call[1], condition_types |-> ConditionTypesOf(tx, ty),
                       condition_names |-> call[2],
                       context |-> [selection |-> SelectionSamples[s], filters |-> filters],
                       db |-> DatabaseOf(ConditionTypesOf(tx, ty), x7, x8, y7)]
    /\ call_result = NoResult
    /\ HandlesIdle

\* db.fetch(condition_names, context) with its rows
RcdbFetchRows ==
    /\ call_args.op = "fetch"
    /\ call_result = NoResult
    /\ \E order \in Orders(PredicateRefs(call_args.context.filters)) :
          call_result' = RCDB_fetch_result(call_args.db, call_args.condition_types,
                                           call_args.condition_names, call_args.context, order)
    /\ UNCHANGED <<call_args, dbVars, cloneVars, queryVars, cacheVars, callVars, dataVars, dirVars>>

\* db.fetch_runs(context) with its rows
RcdbFetchRunsRows ==
    /\ call_args.op = "fetch_runs"
    /\ call_result = NoResult
    /\ \E order \in Orders(PredicateRefs(call_args.context.filters)) :
          call_result' = RCDB_fetch_runs_result(call_args.db, call_args.condition_types,
                                                call_args.context, order)
    /\ UNCHANGED <<call_args, dbVars, cloneVars, queryVars, cacheVars, callVars, dataVars, dirVars>>

RowsNext == RcdbFetchRows \/ RcdbFetchRunsRows

RowsSpec == RowsInit /\ [][RowsNext]_vars

\* the cell of a run and a condition name in the database of the call
CellAt(run, name) == call_args.db.conditions[<<run, call_args.condition_types[name].value.id>>]

TypeAt(name) == call_args.condition_types[name].value.value_type

\* the statement of the call could be built
StatementBuilt ==
    \A order \in Orders(PredicateRefs(call_args.context.filters)) :
        RCDB_fetch(call_args.condition_types, call_args.condition_names,
                   call_args.context, order).kind = "ok"

\* a requested condition of type time has, for some run, a text the parser rejects
RejectedTime(runs) ==
    \E run \in runs, name \in Range(call_args.condition_names) :
        /\ TypeAt(name) = "Time"
        /\ CellAt(run, name).row
        /\ CellAt(run, name).value.some
        /\ DecodeTime(CellAt(run, name).value.value).kind = "err"

FetchOfKnownNames ==
    /\ call_args.op = "fetch"
    /\ call_result # NoResult
    /\ Len(call_args.condition_names) > 0
    /\ \A name \in Range(call_args.condition_names) : call_args.condition_types[name].some

\* what fetch_runs returns for the Context and the database of the call
FetchRunsOf(order) ==
    RCDB_fetch_runs_result(call_args.db, call_args.condition_types, call_args.context, order)

StrictlyAscending(s) == \A i, j \in DOMAIN s : i < j => s[i] < s[j]

\* a Range selection without filters yields its two end points when table `runs` has them
RangeEndPoints(runs) ==
    LET selection == call_args.context.selection
    IN  (selection.selection = "Range" /\ call_args.context.filters = <<>>) =>
            ({selection.start, selection.end} \cap call_args.db.runs) \subseteq Range(runs)

C22_WitnessRange ==
    /\ FetchOfKnownNames
    /\ call_args.context = [selection |-> SelectionSamples[2], filters |-> <<>>]
    /\ call_result.kind = "ok"
    /\ DOMAIN call_result.value = {7, 8}

----------------------------------------------------------------------------
(* RCDB fetch and fetch_runs, stage by stage: database.rs *)

\* the locals of a call that has not started, and no access to the connection yet
NewQuery ==
    [pc |-> "start", names |-> <<>>, refs |-> {}, entries |-> <<>>, compiled |-> 0,
     where_clauses |-> <<>>, params |-> <<>>, log |-> <<>>]

StageInit ==
    /\ \E tx \in {"Int", "Time"}, ty \in {"String", "unknown"},
          s \in DOMAIN SelectionSamples, filters \in RowsFilters, x7 \in {"null", "b"},
          call \in ({"fetch"} \X RowsNames) \cup {<<"fetch_runs", <<>>>>} :
          call_args = [op |-> call[1], condition_types |-> ConditionTypesOf(tx, ty),
                       condition_names |-> call[2],
                       context |-> [selection |-> SelectionSamples[s], filters |-> filters],
                       db |-> DatabaseOf(ConditionTypesOf(tx, ty), x7, "a", "a")]
    /\ call_result = NoResult
    /\ query = NewQuery
    /\ scratch_ids = {}
    /\ clone_calls = <<>>
    /\ variations = EmptyMap
    /\ assignments = EmptyMap
    /\ vaults = EmptyMap
    /\ variation_cache = EmptyMap
    /\ variation_chain_cache = EmptyMap
    /\ pc = "idle"
    /\ ctx = IdleContext
    /\ chain = <<>>
    /\ current = NoVariation
    /\ resolved = EmptyMap
    /\ result = NoResult
    /\ DataIdle
    /\ DirIdle

StageUnchanged ==
    UNCHANGED <<call_args, dbVars, cloneVars, cacheVars, callVars, dataVars, dirVars>>

\* the call returns r
Returns(r) ==
    /\ call_result' = r
    /\ query' = [query EXCEPT !.pc = "done"]

\* the empty result of the call: BTreeMap::new() or Vec::new()
EmptyResult == IF call_args.op = "fetch" THEN Ok(EmptyMap) ELSE Ok(<<>>)

ParseCall_NoShortCircuit ==
    /\ query.pc = "start"
    /\ LET requested == IF call_args.op = "fetch" THEN Requested(call_args.condition_names)
                        ELSE <<>>
       IN  IF call_args.op = "fetch" /\ Len(requested) = 0
           THEN Returns(Err(EmptyConditionList))
           ELSE /\ query' = [query EXCEPT !.pc = "aliases", !.names = requested,
                                          !.refs = PredicateRefs(call_args.context.filters)]
                /\ UNCHANGED call_result
    /\ StageUnchanged

\* fetch: the loop over condition_names and the two early returns; fetch_runs: its
\* early return; then the set predicate_refs of the names the filters refer to
ParseCall ==
    /\ query.pc = "start"
    /\ LET requested == IF call_args.op = "fetch" THEN Requested(call_args.condition_names)
                        ELSE <<>>
       IN  IF call_args.op = "fetch" /\ Len(requested) = 0
           THEN Returns(Err(EmptyConditionList))
           ELSE IF EmptyRuns(call_args.context.selection)
           THEN Returns(EmptyResult)
           ELSE /\ query' = [query EXCEPT !.pc = "aliases", !.names = requested,
                                          !.refs = PredicateRefs(call_args.context.filters)]
                /\ UNCHANGED call_result
    /\ StageUnchanged

\* one iteration of `for name in &requested`
AllocateRequested ==
    /\ query.pc = "aliases"
    /\ query.names # <<>>
    /\ LET r == ensure_query_entry(call_args.condition_types, Head(query.names), TRUE,
                                   query.entries)
       IN  IF r.kind = "err" THEN Returns(r)
           ELSE /\ query' = [query EXCEPT !.names = Tail(query.names), !.entries = r.value]
                /\ UNCHANGED call_result
    /\ StageUnchanged

\* one iteration of `for name in predicate_refs`: the HashSet yields any name it holds
AllocateReferenced ==
    /\ query.pc = "aliases"
    /\ query.names = <<>>
    /\ \E name \in query.refs :
          LET r == ensure_query_entry(call_args.condition_types, name, FALSE, query.entries)
          IN  IF r.kind = "err" THEN Returns(r)
              ELSE /\ query' = [query EXCEPT !.refs = query.refs \ {name}, !.entries = r.value]
                   /\ UNCHANGED call_result
    /\ StageUnchanged

\* the select list, the joins and the clause of the run selection
BuildSql ==
    /\ query.pc = "aliases"
    /\ query.names = <<>>
    /\ query.refs = {}
    /\ IF EmptyRuns(call_args.context.selection)
       THEN Returns(EmptyResult)
       ELSE LET chosen == SelectionClause(call_args.context.selection)
            IN  /\ query' = [query EXCEPT !.pc = "filters",
                                           !.where_clauses = chosen.where_clauses,
                                           !.params = chosen.params]
                /\ UNCHANGED call_result
    /\ StageUnchanged

\* one iteration of `for expr in context.filters()`
CompileFilter ==
    /\ query.pc = "filters"
    /\ query.compiled < Len(call_args.context.filters)
    /\ LET clause == to_sql(call_args.context.filters[query.compiled + 1],
                            AliasLookup(query.entries), query.params)
       IN  IF clause.kind = "err" THEN Returns(Err(clause.err))
           ELSE /\ query' = [query EXCEPT
                                !.compiled = query.compiled + 1,
                                !.where_clauses = IF clause.sql # <<"1 = 1">>
                                                  THEN Append(query.where_clauses, clause.sql)
                                                  ELSE query.where_clauses,
                                !.params = clause.params]
                /\ UNCHANGED call_result
    /\ StageUnchanged

\* the text of the statement of the call
StatementText ==
    (IF call_args.op = "fetch"
     THEN <<"SELECT runs.number">> \o SelectList(query.entries) \o <<" FROM runs ">>
     ELSE <<"SELECT DISTINCT runs.number FROM runs ">>)
        \o JoinClauses(query.entries) \o WhereAndOrder(query.where_clauses)

Prepare_Unguarded ==
    /\ query.pc = "filters"
    /\ query.log = <<>>
    /\ query' = [query EXCEPT !.log = Append(query.log, [op |-> "prepare", with |-> StatementText])]
    /\ UNCHANGED call_result
    /\ StageUnchanged

\* self.connection.prepare(&sql)
Prepare ==
    /\ query.pc = "filters"
    /\ query.compiled = Len(call_args.context.filters)
    /\ query' = [query EXCEPT !.pc = "prepared",
                              !.log = Append(query.log, [op |-> "prepare", with |-> StatementText])]
    /\ UNCHANGED call_result
    /\ StageUnchanged

\* stmt.query(params) and the loop over its rows
Execute ==
    /\ query.pc = "prepared"
    /\ LET runs == QueryRuns(call_args.db, query.entries, call_args.context)
       IN  call_result' =
               IF call_args.op = "fetch"
               THEN DecodeRows(call_args.db, runs, query.entries, SelectedColumns(query.entries))
               ELSE Ok(runs)
    /\ query' = [query EXCEPT !.pc = "done",
                              !.log = Append(query.log, [op |-> "query", with |-> query.params])]
    /\ StageUnchanged

StageNext ==
    \/ ParseCall
    \/ AllocateRequested
    \/ AllocateReferenced
    \/ BuildSql
    \/ CompileFilter
    \/ Prepare
    \/ Execute

StageSpec == StageInit /\ [][StageNext]_vars

\* the call, stage by stage, returns what the call as a whole returns
StagesAgree ==
    query.pc = "done" =>
        \E order \in Orders(PredicateRefs(call_args.context.filters)) :
            call_result =
                IF call_args.op = "fetch"
                THEN RCDB_fetch_result(call_args.db, call_args.condition_types,
                                       call_args.condition_names, call_args.context, order)
                ELSE RCDB_fetch_runs_result(call_args.db, call_args.condition_types,
                                            call_args.context, order)

\* the names of the call: the requested ones in their order, and the referenced ones
RequestedNames ==
    IF call_args.op = "fetch" THEN Requested(call_args.condition_names) ELSE <<>>

UnknownNames(names) == {name \in names : ~call_args.condition_types[name].some}

\* alias_lookup as far as the type check of a comparison uses it
TypeLookup ==
    [name \in ConditionNames |->
        IF call_args.condition_types[name].some
        THEN Some([alias |-> "cond", value_type |-> call_args.condition_types[name].value.value_type])
        ELSE None]

FailingFilters ==
    {i \in DOMAIN call_args.context.filters :
        to_sql(call_args.context.filters[i], TypeLookup, <<>>).kind = "err"}

BuildErrors == {"EmptyConditionList", "ConditionTypeNotFound", "ConditionTypeMismatch"}

\* the error is the one of the first stage of the call that fails
FirstFailure(err) ==
    LET requested == RequestedNames
        refs      == PredicateRefs(call_args.context.filters)
    IN  IF call_args.op = "fetch" /\ Len(requested) = 0 THEN err = EmptyConditionList
        ELSE IF UnknownNames(Range(requested)) # {}
        THEN err = ConditionTypeNotFound(
                       requested[Min({i \in DOMAIN requested :
                                         requested[i] \in UnknownNames(Range(requested))})])
        ELSE IF UnknownNames(refs) # {}
        THEN err.kind = "ConditionTypeNotFound" /\ err.name \in UnknownNames(refs)
        ELSE IF FailingFilters # {}
        THEN err = to_sql(call_args.context.filters[Min(FailingFilters)], TypeLookup, <<>>).err
        ELSE err.kind \notin BuildErrors

\* C26: the connection is used only after every requested and every referenced name
\* has its entry and every filter has compiled, first by prepare and then by query; a
\* call that returns EmptyConditionList, ConditionTypeNotFound or ConditionTypeMismatch
\* has not used the connection, and the error of a call is that of its first failing stage
C26_StageOrder ==
    /\ query.log # <<>> =>
          /\ query.names = <<>> /\ query.refs = {}
          /\ Range(RequestedNames) \cup PredicateRefs(call_args.context.filters)
                 = {query.entries[i].name : i \in DOMAIN query.entries}
          /\ query.compiled = Len(call_args.context.filters)
          /\ FailingFilters = {}
          /\ query.log[1].op = "prepare"
          /\ Len(query.log) <= 2
          /\ Len(query.log) = 2 => query.log[2].op = "query"
    /\ (query.pc = "done" /\ call_result.kind = "err") =>
          /\ FirstFailure(call_result.err)
          /\ call_result.err.kind \in BuildErrors => query.log = <<>>

\* a fetch that has allocated an alias and then meets a name the schema does not know
C26_Witness ==
    /\ query.pc = "done"
    /\ call_args.op = "fetch"
    /\ call_result.kind = "err"
    /\ call_result.err.kind = "ConditionTypeNotFound"
    /\ Len(query.entries) >= 1
    /\ query.log = <<>>

\* a call that has prepared and run its statement after compiling two filters
C26_WitnessExecuted ==
    /\ query.pc = "done"
    /\ query.compiled = 2
    /\ Len(query.log) = 2
    /\ call_result.kind = "ok"

\* C23: with the selection Runs([]) (and, for fetch, a name in the list) the call
\* returns the empty mapping of fetch or the empty list of fetch_runs, and at no
\* point of the call is a statement prepared or executed on the connection
C23_EmptyRunsShortCircuit ==
    (/\ EmptyRuns(call_args.context.selection)
     /\ call_args.op = "fetch" => Len(call_args.condition_names) > 0) =>
        /\ query.log = <<>>
        /\ query.pc = "done" => call_result = EmptyResult

\* fetch of the unknown name y with Runs([]) has returned the empty mapping
C23_Witness ==
    /\ EmptyRuns(call_args.context.selection)
    /\ call_args.op = "fetch"
    /\ call_args.condition_names = <<"y">>
    /\ ~call_args.condition_types["y"].some
    /\ query.pc = "done"
    /\ call_result = Ok(EmptyMap)
    /\ query.log = <<>>

C23_WitnessRuns ==
    /\ EmptyRuns(call_args.context.selection)
    /\ call_args.op = "fetch_runs"
    /\ query.pc = "done"
    /\ call_result = Ok(<<>>)

====
